---- MODULE Spec2Model ----
(***************************************************************************)
(* Client-side state of the InstaMini front end: the session               *)
(* (AuthContext), the normalized post store (PostContext: posts,           *)
(* feedPosts), the Feed pagination driver, the PostCard / PostDetail like  *)
(* and comment handlers and the Profile / Explore follow handlers.         *)
(*                                                                         *)
(* JavaScript runs the handlers on one thread: a handler runs up to its    *)
(* first await as one step, and the continuation of each awaited network   *)
(* call runs as one later step.  Calls that are awaited are kept in        *)
(* `inflight`; the network answers them in any order, with success or      *)
(* failure.  What the server sends back is an input of the model.          *)
(***************************************************************************)
EXTENDS Integers, Sequences, FiniteSets, TLC

\* ---- bounds of the model ------------------------------------------------
MaxPostId == 2          \* post ids are 1..MaxPostId
MaxInflight == 2        \* network calls awaited at the same time
MaxLikes == 1           \* like_count values the server sends: 0..MaxLikes
MaxComments == 1        \* addComment is not called above this comment_count
MaxPage == 3            \* the Feed page number is not raised above this
MaxPageLen == 2         \* posts in one response of the server
MaxFollowers == 1       \* followers_count values the server sends
MaxFeedLen == 3      \* CreatePost adds to a feed of fewer than MaxFeedLen ids
MaxTime == 1         \* the clock and the expiry of a token lie in 0..MaxTime
MaxUserId == 1          \* users listed by Explore are 1..MaxUserId

PostIds == 1..MaxPostId
\* the id of a call or a step that concerns no post and no user
NoId == 0
\* postAPI.getFeed(page, 10): the page size the Feed asks for
PageSize == 10

VARIABLES
    token, user,            \* AuthProvider: useState(null) each
    storedToken, storedUser,   \* localStorage items 'token' and 'user'
    route, detailId,        \* the mounted page and PostDetail's :id
    posts,                  \* PostProvider: { id: post }
    feedPosts,              \* PostProvider: ordered feed ids
    page, hasMore, loading, loadingMore,   \* Feed component state
    userPosts,              \* PostProvider: { username: [postIds] }
    profile, following,     \* Profile component state
    users, followingStates, \* Explore component state
    inflight,               \* awaited network calls, oldest first
    event,                  \* the step taken last and what it returned
    chain,                  \* history: settled toggles per post; the server's like
    fetched,                \* history: ids merged by the mounted Feed
    commentList             \* the CommentList a PostCard of the feed shows

vars == <<token, user, storedToken, storedUser, route, detailId, posts, feedPosts, userPosts, page, hasMore,
          loading, loadingMore, profile, following, users, followingStates,
          inflight, event, chain, fetched, commentList>>

Null == "null"

\* ---- small helpers ------------------------------------------------------
Range(s) == {s[i] : i \in 1..Len(s)}

Max(a, b) == IF a >= b THEN a ELSE b

RemoveAt(s, i) == [j \in 1..(Len(s) - 1) |-> IF j < i THEN s[j] ELSE s[j + 1]]

\* sequences without repetition, of length at most n, over the set S
RECURSIVE SeqsUpTo(_, _)
SeqsUpTo(S, n) ==
    IF n = 0 THEN {<<>>}
    ELSE LET shorter == SeqsUpTo(S, n - 1)
         IN shorter \cup {Append(s, x) : s \in {t \in shorter : Len(t) = n - 1},
                                         x \in S}

NoRepeat(s) == \A i, j \in 1..Len(s) : i # j => s[i] # s[j]

\* ---- AuthContext --------------------------------------------------------
isAuthenticated == token # Null /\ user # Null

\* ---- what the server can send ------------------------------------------
PostOf(id, liked, likes, comments) ==
    [id |-> id, is_liked |-> liked, like_count |-> likes, comment_count |-> comments]

ServerPost(id) ==
    {PostOf(id, l, n, 0) : l \in BOOLEAN, n \in 0..MaxLikes}

IdPages == {s \in SeqsUpTo(PostIds, MaxPageLen) : NoRepeat(s)}

\* the sequences of posts a response can carry for a given sequence of ids
RECURSIVE PostsFor(_)
PostsFor(ids) ==
    IF ids = <<>> THEN {<<>>}
    ELSE {<<p>> \o rest : p \in ServerPost(Head(ids)), rest \in PostsFor(Tail(ids))}

ServerPages == UNION {PostsFor(ids) : ids \in IdPages}

\* ---- PostContext: the store operations ---------------------------------
\* { ...existingPost, ...updates }
Merge(existingPost, updates) ==
    [f \in DOMAIN existingPost \cup DOMAIN updates |->
        IF f \in DOMAIN updates THEN updates[f] ELSE existingPost[f]]

\* an updatePost that makes an entry of the updates when the id is absent
updatePostCreating(ps, postId, updates) ==
    [x \in DOMAIN ps \cup {postId} |->
        IF x # postId THEN ps[x]
        ELSE IF postId \in DOMAIN ps THEN Merge(ps[postId], updates) ELSE updates]

updatePost(ps, postId, updates) ==
    IF postId \notin DOMAIN ps THEN ps
    ELSE [ps EXCEPT ![postId] = Merge(ps[postId], updates)]

setPost(ps, post) ==
    [x \in DOMAIN ps \cup {post.id} |-> IF x = post.id THEN post ELSE ps[x]]

RECURSIVE setPostsBatch(_, _)
setPostsBatch(ps, newPosts) ==
    IF newPosts = <<>> THEN ps
    ELSE setPostsBatch(setPost(ps, Head(newPosts)), Tail(newPosts))

\* a setFeed that keeps what the feed held
setFeedKeeping(prev, postIds) == prev \o postIds

setFeed(prev, postIds) == postIds

\* new Set(prev), then add each id, then Array.from: insertion order
SetAdd(s, x) == IF x \in Range(s) THEN s ELSE Append(s, x)

RECURSIVE SetAddAll(_, _)
SetAddAll(s, xs) ==
    IF xs = <<>> THEN s ELSE SetAddAll(SetAdd(s, Head(xs)), Tail(xs))

\* an addToFeed without the Set: [...prev, ...postIds]
addToFeedConcat(prev, postIds) == prev \o postIds

\* an addToFeed that puts the new ids in front of the feed
addToFeedFront(prev, postIds) ==
    SetAddAll(<<>>, postIds)
        \o SelectSeq(SetAddAll(<<>>, prev), LAMBDA x : x \notin Range(postIds))

addToFeed(prev, postIds) == SetAddAll(SetAddAll(<<>>, prev), postIds)

EmptyPosts == [x \in {} |-> Null]

PostIdsOf(newPosts) == [i \in 1..Len(newPosts) |-> newPosts[i].id]

\* a toggleLike whose unlike leaves like_count as it was
ToggleUpdatesNoDecrement(wasLiked, oldLikeCount) ==
    [is_liked |-> ~wasLiked,
     like_count |-> IF wasLiked THEN oldLikeCount ELSE oldLikeCount + 1]

\* a toggle whose like sets the flag and leaves the count
ToggleUpdatesLikeKeepsCount(wasLiked, oldLikeCount) ==
    [is_liked |-> ~wasLiked,
     like_count |-> IF wasLiked THEN Max(0, oldLikeCount - 1) ELSE oldLikeCount]

\* the optimistic values of toggleLike, addComment and their rollbacks
ToggleUpdates(wasLiked, oldLikeCount) ==
    [is_liked |-> ~wasLiked,
     like_count |-> IF wasLiked THEN Max(0, oldLikeCount - 1) ELSE oldLikeCount + 1]

\* a rollback that restores is_liked and forgets like_count
ToggleRevertFlagOnly(wasLiked, oldLikeCount) == [is_liked |-> wasLiked]

\* a rollback that restores the count and leaves the flag as toggled
ToggleRevertCountOnly(wasLiked, oldLikeCount) == [like_count |-> oldLikeCount]

ToggleRevert(wasLiked, oldLikeCount) ==
    [is_liked |-> wasLiked, like_count |-> oldLikeCount]

\* an addComment that waits for the server before it counts the comment
CommentUpdatesDeferred(oldCommentCount) == [comment_count |-> oldCommentCount]

CommentUpdates(oldCommentCount) == [comment_count |-> oldCommentCount + 1]

\* a rollback that leaves the optimistic count in place
CommentRevertNone(oldCommentCount) == [comment_count |-> oldCommentCount + 1]

CommentRevert(oldCommentCount) == [comment_count |-> oldCommentCount]

\* ---- awaited network calls ----------------------------------------------
NoPost == PostOf(NoId, FALSE, 0, 0)

\* was, old: the values the handler captured before it awaited (wasLiked and
\* oldLikeCount, oldCommentCount, following, currentFollowingState);
\* pre (history): the cached post just before the optimistic change
Req(kind, id, pg, was, old, pre) ==
    [kind |-> kind, id |-> id, page |-> pg, was |-> was,
     old |-> old, pre |-> pre, clean |-> TRUE, live |-> TRUE]

NoReq == [Req("none", NoId, 0, FALSE, 0, NoPost) EXCEPT !.clean = FALSE, !.live = FALSE]

LikeKinds == {"like", "unlike"}

HasRoom == Len(inflight) < MaxInflight

\* history: a write to the like fields (aspect "like") or to comment_count
\* (aspect "comment") of the posts in ids, or to the follow state of Profile
\* (aspect "follow") or of the users in ids of Explore (aspect "exFollow"),
\* made by anyone else, ends the "no other mutation in between" of the calls
\* awaited for them
Aspect(kind) == IF kind \in LikeKinds THEN "like"
                ELSE IF kind = "addComment" THEN "comment"
                ELSE IF kind \in {"follow", "unfollow"} THEN "follow"
                ELSE IF kind \in {"exFollow", "exUnfollow"} THEN "exFollow"
                ELSE "none"

Dirty(reqs, ids, aspects) ==
    [i \in 1..Len(reqs) |->
        IF reqs[i].id \in ids /\ Aspect(reqs[i].kind) \in aspects
        THEN [reqs[i] EXCEPT !.clean = FALSE] ELSE reqs[i]]

\* a component that unmounts leaves its awaited calls behind: their
\* continuations still run, but their setState calls no longer have effect
ComponentKinds == {"getFeed", "fetchPost", "getProfile", "follow", "unfollow",
                   "getUsers", "exFollow", "exUnfollow", "getComments"}

Orphan(reqs) ==
    [i \in 1..Len(reqs) |->
        IF reqs[i].kind \in ComponentKinds THEN [reqs[i] EXCEPT !.live = FALSE]
        ELSE reqs[i]]

\* the step taken last: its handler, its post or user, what the awaited
\* PostContext call returned to its caller, and (history) whether the settled
\* call saw no other mutation of its fields
Ev(op, id, result, req) ==
    [op |-> op, id |-> id, result |-> result, clean |-> req.clean, status |-> "none"]

\* history: the status the rejected call was answered with
Failed(ev, status) == [ev EXCEPT !.status = status]

NoChain == [st |-> 0, liked |-> FALSE, count |-> 0, server |-> FALSE]

\* server: whether the server holds a like of the viewer for the post, as the
\* answered like and unlike calls leave it; a rejected call leaves it alone
Served(c, r) == [c EXCEPT !.server = (r.kind = "like")]

Forget(c) == [NoChain EXCEPT !.server = c.server]

ChainReset(ch, ids) == [x \in PostIds |-> IF x \in ids THEN Forget(ch[x]) ELSE ch[x]]

PendingLike(reqs, id) == \E i \in 1..Len(reqs) : reqs[i].id = id /\ reqs[i].kind \in LikeKinds

\* history: the toggle invoked now on post id, whose like state was (liked, count)
ChainInvoke(ch, reqs, id, liked, count) ==
    [ch EXCEPT ![id] =
        IF ch[id].st = 2 THEN [ch[id] EXCEPT !.st = 3]
        ELSE IF ~PendingLike(reqs, id)
             THEN [ch[id] EXCEPT !.st = 1, !.liked = liked, !.count = count]
        ELSE Forget(ch[id])]

ChainSuccess(ch, r) ==
    [ch EXCEPT ![r.id] = Served(IF r.clean /\ ch[r.id].st \in {1, 3}
                                THEN [ch[r.id] EXCEPT !.st = ch[r.id].st + 1]
                                ELSE Forget(ch[r.id]), r)]

\* history: the second toggle of a chain failed, with no other mutation between
ChainFailure(ch, r) ==
    [ch EXCEPT ![r.id] = IF r.clean /\ ch[r.id].st = 3
                         THEN [ch[r.id] EXCEPT !.st = 5]
                         ELSE Forget(ch[r.id])]

\* ---- frames and navigation -----------------------------------------------
feedState == <<page, hasMore, loading, loadingMore, fetched>>
\* Feed and what it renders: its PostCards and their CommentList
feedLocal == <<feedState, commentList>>
profileLocal == <<profile, following>>
exploreLocal == <<users, followingStates>>
memory == <<token, user>>
storage == <<storedToken, storedUser>>
session == <<memory, storage>>
lists == <<feedPosts, userPosts>>

\* history of the mounted Feed: ids, the ids of the pages it merged, while
\* ok; merged, the last page of the run of pages 1, 2, ... it merged
NoFetched == [ok |-> FALSE, ids |-> <<>>, merged |-> 0]
Lost(f) == [NoFetched EXCEPT !.merged = f.merged]
\* PostCard.showComments is false: no CommentList.  Otherwise postId is the
\* post of the card; keyed and key, the comment_count that is the key of the
\* instance whose effect has run; loaded and shown, whether its fetch was
\* answered and how many of the comments added since the list was opened it
\* displays; added (history), how many comments the server has stored since
NoCommentList ==
    [postId |-> NoId, keyed |-> FALSE, key |-> 0, loaded |-> FALSE, shown |-> 0,
     added |-> 0]
NoProfile == [loaded |-> FALSE, followers_count |-> 0]
NoUsers == [x \in {} |-> 0]

\* the useState initial values; a page that is not mounted has no state
UnmountFeed ==
    page' = 1 /\ hasMore' = TRUE /\ loading' = TRUE /\ loadingMore' = FALSE
    /\ fetched' = NoFetched /\ commentList' = NoCommentList
UnmountProfile == profile' = NoProfile /\ following' = FALSE
UnmountExplore == users' = NoUsers /\ followingStates' = NoUsers

GetFeedReq(pg) == Req("getFeed", NoId, pg, FALSE, 0, NoPost)

\* navigate('/login')
NavigateLogin(reqs) ==
    IF route = "login"
    THEN inflight' = reqs
         /\ UNCHANGED <<route, detailId, feedLocal, profileLocal, exploreLocal>>
    ELSE route' = "login" /\ detailId' = NoId /\ inflight' = Orphan(reqs)
         /\ UnmountFeed /\ UnmountProfile /\ UnmountExplore

\* navigate('/'): Feed mounts and its effect runs (Feed useEffect)
NavigateFeed(reqs) ==
    IF route = "feed"
    THEN inflight' = reqs
         /\ UNCHANGED <<route, detailId, feedLocal, profileLocal, exploreLocal>>
    ELSE route' = "feed" /\ detailId' = NoId
         /\ UnmountProfile /\ UnmountExplore
         /\ page' = 1 /\ hasMore' = TRUE /\ loadingMore' = FALSE
         /\ loading' = isAuthenticated
         /\ fetched' = NoFetched /\ commentList' = NoCommentList
         /\ inflight' = IF isAuthenticated
                        THEN Append(Orphan(reqs), GetFeedReq(1))
                        ELSE Orphan(reqs)

\* feedPosts.map(getPost).filter(Boolean), as the ids of the posts it keeps
postsListOf(feed, ps) == SelectSeq(feed, LAMBDA postId : postId \in DOMAIN ps)

\* Feed: postsList, and the early returns before the list is rendered
postsList == postsListOf(feedPosts, posts)

FeedListRendered ==
    route = "feed" /\ isAuthenticated /\ ~loading /\ postsList # <<>>

\* ---- api.js response interceptor -----------------------------------------
\* the status of a rejected call: 401, or any other failure
Unauthorized == "401"
ServerError == "500"

\* an interceptor that removes the token and keeps the stored user
ResponseInterceptorTokenOnly(status) ==
    IF status = Unauthorized
    THEN storedToken' = Null /\ UNCHANGED storedUser
    ELSE UNCHANGED storage

\* error.response?.status === 401: the stored session is removed and the
\* browser is sent to /login (PageLoad); the rejection is passed on either way
ResponseInterceptor(status) ==
    IF status = Unauthorized
    THEN storedToken' = Null /\ storedUser' = Null
    ELSE UNCHANGED storage

\* ---- PostContext.toggleLike ----------------------------------------------
\* a toggleLike that toggles an absent post from defaults instead of fetching it
toggleLikeWithoutFetch(postId) ==
    LET post == IF postId \in DOMAIN posts THEN posts[postId] ELSE NoPost
        wasLiked == post.is_liked
        oldLikeCount == post.like_count
    IN /\ posts' = updatePost(posts, postId, ToggleUpdates(wasLiked, oldLikeCount))
       /\ inflight' = Append(Dirty(inflight, {postId}, {"like"}),
                             Req(IF wasLiked THEN "unlike" ELSE "like",
                                 postId, 0, wasLiked, oldLikeCount, post))
       /\ chain' = ChainInvoke(chain, inflight, postId, wasLiked, oldLikeCount)

\* up to its first await
toggleLike(postId) ==
    IF postId \notin DOMAIN posts
    THEN /\ inflight' = Append(inflight, Req("toggleFetch", postId, 0, FALSE, 0, NoPost))
         /\ UNCHANGED <<posts, chain>>
    ELSE LET post == posts[postId]
             wasLiked == post.is_liked
             oldLikeCount == post.like_count
         IN /\ posts' = updatePost(posts, postId, ToggleUpdates(wasLiked, oldLikeCount))
            /\ inflight' = Append(Dirty(inflight, {postId}, {"like"}),
                                  Req(IF wasLiked THEN "unlike" ELSE "like",
                                      postId, 0, wasLiked, oldLikeCount, post))
            /\ chain' = ChainInvoke(chain, inflight, postId, wasLiked, oldLikeCount)

\* postAPI.getById answered: setPost, then the optimistic update and the call
ToggleFetchOk(i, p) ==
    /\ i \in 1..Len(inflight)
    /\ inflight[i].kind = "toggleFetch"
    /\ p \in ServerPost(inflight[i].id)
    /\ LET r == inflight[i]
           post == p
           wasLiked == post.is_liked
           oldLikeCount == post.like_count
           others == Dirty(RemoveAt(inflight, i), {r.id}, {"like", "comment"})
       IN /\ posts' = updatePost(setPost(posts, post), r.id,
                                 ToggleUpdates(wasLiked, oldLikeCount))
          /\ inflight' = Append(others,
                                Req(IF wasLiked THEN "unlike" ELSE "like",
                                    r.id, 0, wasLiked, oldLikeCount, post))
          /\ chain' = ChainInvoke(ChainReset(chain, {r.id}), others, r.id,
                                  wasLiked, oldLikeCount)
          /\ event' = Ev("toggleLikeFetched", r.id, "none", r)
    /\ UNCHANGED <<session, route, detailId, lists, feedLocal, profileLocal, exploreLocal>>

ToggleFetchRejected(i, status) ==
    /\ i \in 1..Len(inflight)
    /\ inflight[i].kind = "toggleFetch"
    /\ inflight' = RemoveAt(inflight, i)
    /\ event' = Failed(Ev("toggleLike", inflight[i].id, "thrown", inflight[i]), status)
    /\ ResponseInterceptor(status)
    /\ UNCHANGED <<memory, route, detailId, posts, lists, feedLocal, profileLocal,
                   exploreLocal, chain>>

ToggleFetchFail(i) == ToggleFetchRejected(i, ServerError)

\* postAPI.like / postAPI.unlike answered
LikeOk(i) ==
    /\ i \in 1..Len(inflight)
    /\ inflight[i].kind \in LikeKinds
    /\ inflight' = RemoveAt(inflight, i)
    /\ chain' = ChainSuccess(chain, inflight[i])
    /\ event' = Ev("toggleLike", inflight[i].id, "returned", inflight[i])
    /\ UNCHANGED <<session, route, detailId, posts, lists, feedLocal, profileLocal,
                   exploreLocal>>

LikeRejected(i, status) ==
    /\ i \in 1..Len(inflight)
    /\ inflight[i].kind \in LikeKinds
    /\ LET r == inflight[i]
       IN /\ posts' = updatePost(posts, r.id, ToggleRevert(r.was, r.old))
          /\ inflight' = Dirty(RemoveAt(inflight, i), {r.id}, {"like"})
          /\ chain' = ChainFailure(chain, r)
          /\ event' = Failed(Ev("toggleLike", r.id, "thrown", r), status)
    /\ ResponseInterceptor(status)
    /\ UNCHANGED <<memory, route, detailId, lists, feedLocal, profileLocal, exploreLocal>>

LikeFail(i) == LikeRejected(i, ServerError)

\* ---- PostContext.addComment ----------------------------------------------
addComment(postId) ==
    IF postId \notin DOMAIN posts
    THEN UNCHANGED <<posts, inflight>>
    ELSE LET post == posts[postId]
             oldCommentCount == post.comment_count
         IN /\ posts' = updatePost(posts, postId, CommentUpdates(oldCommentCount))
            /\ inflight' = Append(Dirty(inflight, {postId}, {"comment"}),
                                  Req("addComment", postId, 0, FALSE, oldCommentCount, post))

\* history: the server has stored one more comment of the post
Commented(list, postId) ==
    IF list.postId = postId THEN [list EXCEPT !.added = list.added + 1] ELSE list

AddCommentOk(i) ==
    /\ i \in 1..Len(inflight)
    /\ inflight[i].kind = "addComment"
    /\ inflight' = RemoveAt(inflight, i)
    /\ commentList' = Commented(commentList, inflight[i].id)
    /\ event' = Ev("addComment", inflight[i].id, "returned", inflight[i])
    /\ UNCHANGED <<session, route, detailId, posts, lists, feedState, profileLocal,
                   exploreLocal, chain>>

AddCommentRejected(i, status) ==
    /\ i \in 1..Len(inflight)
    /\ inflight[i].kind = "addComment"
    /\ LET r == inflight[i]
       IN /\ posts' = updatePost(posts, r.id, CommentRevert(r.old))
          /\ inflight' = Dirty(RemoveAt(inflight, i), {r.id}, {"comment"})
          /\ event' = Failed(Ev("addComment", r.id, "thrown", r), status)
    /\ ResponseInterceptor(status)
    /\ UNCHANGED <<memory, route, detailId, lists, feedLocal, profileLocal,
                   exploreLocal, chain>>

AddCommentFail(i) == AddCommentRejected(i, ServerError)

\* ---- PostCard (rendered by Feed for the posts of postsList) --------------
PostCardHandleLike(postId) ==
    /\ FeedListRendered
    /\ postId \in Range(postsList)
    /\ IF ~isAuthenticated
       THEN UNCHANGED <<posts, inflight, chain>>
       ELSE HasRoom /\ toggleLike(postId)
    /\ event' = Ev("handleLike", postId, "none", NoReq)
    /\ UNCHANGED <<session, route, detailId, lists, feedLocal, profileLocal, exploreLocal>>

CanComment(postId) ==
    /\ postId \in DOMAIN posts => posts[postId].comment_count < MaxComments + 1
    /\ commentList.added < MaxComments + 1

PostCardHandleComment(postId) ==
    /\ FeedListRendered
    /\ postId \in Range(postsList)
    /\ IF ~isAuthenticated
       THEN UNCHANGED <<posts, inflight>>
       ELSE HasRoom /\ CanComment(postId) /\ addComment(postId)
    /\ event' = Ev("handleComment", postId, "none", NoReq)
    /\ UNCHANGED <<session, route, detailId, lists, feedLocal, profileLocal,
                   exploreLocal, chain>>

\* ---- CommentList of a PostCard ---------------------------------------------
\* old: the comment_count that is the key of the instance that issued the call
GetCommentsReq(postId, key) == Req("getComments", postId, 0, FALSE, key, NoPost)

CardRendered(postId) == FeedListRendered /\ postId \in Range(postsList)

\* the calls of instances of the list that are no longer mounted
OrphanComments(reqs, postId) ==
    [i \in 1..Len(reqs) |->
        IF reqs[i].kind = "getComments" /\ reqs[i].id = postId
        THEN [reqs[i] EXCEPT !.live = FALSE] ELSE reqs[i]]

\* the instance keyed by the post's comment_count has run its effect
CommentListKeyed ==
    /\ commentList.postId \in DOMAIN posts
    /\ commentList.keyed
    /\ commentList.key = posts[commentList.postId].comment_count

\* PostCard: "View all comments", setShowComments(true)
ShowComments(postId) ==
    /\ CardRendered(postId)
    /\ posts[postId].comment_count > 0
    /\ commentList.postId = NoId
    /\ commentList' = [NoCommentList EXCEPT !.postId = postId]
    /\ event' = Ev("showComments", postId, "none", NoReq)
    /\ UNCHANGED <<session, route, detailId, posts, lists, feedState, profileLocal,
                   exploreLocal, inflight, chain>>

\* React after a render: the card is gone and its list with it, or the list
\* is mounted anew under key={post.comment_count} and its effect fetches
CommentListEffect ==
    /\ commentList.postId # NoId
    /\ LET id == commentList.postId
       IN /\ IF ~CardRendered(id)
             THEN /\ commentList' = NoCommentList
                  /\ inflight' = OrphanComments(inflight, id)
             ELSE /\ ~CommentListKeyed
                  /\ HasRoom
                  /\ commentList' = [commentList EXCEPT
                                        !.keyed = TRUE,
                                        !.key = posts[id].comment_count,
                                        !.loaded = FALSE,
                                        !.shown = 0]
                  /\ inflight' = Append(OrphanComments(inflight, id),
                                        GetCommentsReq(id, posts[id].comment_count))
          /\ event' = Ev("commentListEffect", id, "none", NoReq)
    /\ UNCHANGED <<session, route, detailId, posts, lists, feedState, profileLocal,
                   exploreLocal, chain>>

\* fetchComments after postAPI.getComments is answered with the comments the
\* server has stored: setComments, setLoading(false)
CommentsOk(i) ==
    /\ i \in 1..Len(inflight)
    /\ inflight[i].kind = "getComments"
    /\ LET r == inflight[i]
       IN /\ commentList' =
                IF r.live /\ commentList.postId = r.id /\ CardRendered(r.id)
                   /\ CommentListKeyed
                THEN [commentList EXCEPT !.loaded = TRUE, !.shown = commentList.added]
                ELSE commentList
          /\ event' = Ev("fetchComments", r.id, "returned", r)
    /\ inflight' = RemoveAt(inflight, i)
    /\ UNCHANGED <<session, route, detailId, posts, lists, feedState, profileLocal,
                   exploreLocal, chain>>

\* fetchComments when postAPI.getComments fails: console.error, setLoading(false)
CommentsRejected(i, status) ==
    /\ i \in 1..Len(inflight)
    /\ inflight[i].kind = "getComments"
    /\ inflight' = RemoveAt(inflight, i)
    /\ event' = Failed(Ev("fetchComments", inflight[i].id, "thrown", inflight[i]), status)
    /\ ResponseInterceptor(status)
    /\ UNCHANGED <<memory, route, detailId, posts, lists, feedLocal, profileLocal,
                   exploreLocal, chain>>

CommentsFail(i) == CommentsRejected(i, ServerError)

\* ---- PostDetail -----------------------------------------------------------
\* the page of post id is opened: fetchPost
GoPost(id) ==
    /\ route # "post"
    /\ id \in PostIds
    /\ id \notin DOMAIN posts => HasRoom
    /\ route' = "post" /\ detailId' = id
    /\ UnmountFeed /\ UnmountProfile /\ UnmountExplore
    /\ inflight' = IF id \in DOMAIN posts THEN Orphan(inflight)
                   ELSE Append(Orphan(inflight), Req("fetchPost", id, 0, FALSE, 0, NoPost))
    /\ event' = Ev("goPost", id, "none", NoReq)
    /\ UNCHANGED <<session, posts, lists, chain>>

FetchPostOk(i, p) ==
    /\ i \in 1..Len(inflight)
    /\ inflight[i].kind = "fetchPost"
    /\ p \in ServerPost(inflight[i].id)
    /\ posts' = setPost(posts, p)
    /\ inflight' = Dirty(RemoveAt(inflight, i), {p.id}, {"like", "comment"})
    /\ chain' = ChainReset(chain, {p.id})
    /\ event' = Ev("fetchPost", p.id, "returned", inflight[i])
    /\ UNCHANGED <<session, route, detailId, lists, feedLocal, profileLocal, exploreLocal>>

\* catch: toast and navigate('/')
FetchPostRejected(i, status) ==
    /\ i \in 1..Len(inflight)
    /\ inflight[i].kind = "fetchPost"
    /\ NavigateFeed(RemoveAt(inflight, i))
    /\ event' = Failed(Ev("fetchPost", inflight[i].id, "thrown", inflight[i]), status)
    /\ ResponseInterceptor(status)
    /\ UNCHANGED <<memory, posts, lists, chain>>

FetchPostFail(i) == FetchPostRejected(i, ServerError)

\* a handleLike that does not ask for a session
PostDetailHandleLikeUnguarded ==
    /\ route = "post"
    /\ HasRoom /\ toggleLike(detailId)
    /\ UNCHANGED <<route, detailId, feedLocal, profileLocal, exploreLocal>>
    /\ event' = Ev("handleLike", detailId, "none", NoReq)
    /\ UNCHANGED <<session, lists>>

PostDetailHandleLike ==
    /\ route = "post"
    /\ IF ~isAuthenticated
       THEN NavigateLogin(inflight) /\ UNCHANGED <<posts, chain>>
       ELSE /\ HasRoom /\ toggleLike(detailId)
            /\ UNCHANGED <<route, detailId, feedLocal, profileLocal, exploreLocal>>
    /\ event' = Ev("handleLike", detailId, "none", NoReq)
    /\ UNCHANGED <<session, lists>>

PostDetailHandleComment ==
    /\ route = "post"
    /\ IF ~isAuthenticated
       THEN UNCHANGED <<posts, inflight>>
       ELSE HasRoom /\ CanComment(detailId) /\ addComment(detailId)
    /\ event' = Ev("handleComment", detailId, "none", NoReq)
    /\ UNCHANGED <<session, route, detailId, lists, feedLocal, profileLocal,
                   exploreLocal, chain>>

\* ---- Feed ------------------------------------------------------------------
HasNextValues == {"true", "false", "undefined"}

\* a flag that takes a missing has_next for "more pages"
OrFalseMissingTrue(v) == v # "false"

\* response.data.has_next || false
OrFalse(v) == v = "true"

IdSet(newPosts) == {newPosts[i].id : i \in 1..Len(newPosts)}

GoFeed ==
    /\ route # "feed"
    /\ isAuthenticated => HasRoom
    /\ NavigateFeed(inflight)
    /\ event' = Ev("goFeed", NoId, "none", NoReq)
    /\ UNCHANGED <<session, posts, lists, chain>>

\* fetchFeed after postAPI.getFeed(page, 10) is answered: try and finally
FeedResponse(i, newPosts, has_next) ==
    /\ i \in 1..Len(inflight)
    /\ inflight[i].kind = "getFeed"
    /\ has_next \in HasNextValues
    /\ LET r == inflight[i]
           postIds == PostIdsOf(newPosts)
       IN /\ posts' = setPostsBatch(posts, newPosts)
          /\ feedPosts' = IF r.page = 1 THEN setFeed(feedPosts, postIds)
                          ELSE addToFeed(feedPosts, postIds)
          /\ IF r.live
             THEN /\ hasMore' = OrFalse(has_next)
                  /\ loading' = FALSE
                  /\ loadingMore' = FALSE
                  /\ fetched' =
                        LET f == IF r.page = fetched.merged + 1
                                 THEN [fetched EXCEPT !.merged = r.page]
                                 ELSE fetched
                        IN IF r.page = 1
                           THEN [ok |-> TRUE, ids |-> postIds, merged |-> 1]
                           ELSE IF f.ok THEN [f EXCEPT !.ids = f.ids \o postIds]
                           ELSE Lost(f)
                  /\ UNCHANGED <<page, commentList>>
             ELSE /\ fetched' = Lost(fetched)
                  /\ UNCHANGED <<page, hasMore, loading, loadingMore, commentList>>
          /\ inflight' = Dirty(RemoveAt(inflight, i), IdSet(newPosts), {"like", "comment"})
          /\ chain' = ChainReset(chain, IdSet(newPosts))
          /\ event' = Ev("fetchFeed", NoId, has_next, r)
    /\ UNCHANGED <<session, route, detailId, userPosts, profileLocal, exploreLocal>>

\* fetchFeed when postAPI.getFeed fails: catch and finally
FeedRejected(i, status) ==
    /\ i \in 1..Len(inflight)
    /\ inflight[i].kind = "getFeed"
    /\ IF inflight[i].live
       THEN loading' = FALSE /\ loadingMore' = FALSE /\ fetched' = Lost(fetched)
            /\ UNCHANGED <<page, hasMore, commentList>>
       ELSE UNCHANGED feedLocal
    /\ inflight' = RemoveAt(inflight, i)
    /\ event' = Failed(Ev("fetchFeed", NoId, "thrown", inflight[i]), status)
    /\ ResponseInterceptor(status)
    /\ UNCHANGED <<memory, route, detailId, posts, lists, profileLocal, exploreLocal, chain>>

FeedFail(i) == FeedRejected(i, ServerError)

\* a handleLoadMore that does not look at hasMore
HandleLoadMoreIgnoringHasMore ==
    /\ FeedListRendered
    /\ IF ~loadingMore
       THEN /\ page < MaxPage
            /\ HasRoom
            /\ page' = page + 1
            /\ loadingMore' = TRUE
            /\ inflight' = Append(inflight, GetFeedReq(page + 1))
            /\ UNCHANGED <<hasMore, loading, fetched, commentList>>
       ELSE UNCHANGED <<feedLocal, inflight>>
    /\ event' = Ev("handleLoadMore", NoId, "none", NoReq)
    /\ UNCHANGED <<session, route, detailId, posts, lists, profileLocal, exploreLocal, chain>>

\* a handleLoadMore that does not look at loadingMore
HandleLoadMoreWhileLoading ==
    /\ FeedListRendered
    /\ IF hasMore
       THEN /\ page < MaxPage
            /\ HasRoom
            /\ page' = page + 1
            /\ loadingMore' = TRUE
            /\ inflight' = Append(inflight, GetFeedReq(page + 1))
            /\ UNCHANGED <<hasMore, loading, fetched, commentList>>
       ELSE UNCHANGED <<feedLocal, inflight>>
    /\ event' = Ev("handleLoadMore", NoId, "none", NoReq)
    /\ UNCHANGED <<session, route, detailId, posts, lists, profileLocal, exploreLocal, chain>>

\* handleLoadMore, and the effect that runs fetchFeed when page has changed
HandleLoadMore ==
    /\ FeedListRendered
    /\ IF ~loadingMore /\ hasMore
       THEN /\ page < MaxPage
            /\ HasRoom
            /\ page' = page + 1
            /\ loadingMore' = TRUE
            /\ inflight' = Append(inflight, GetFeedReq(page + 1))
            /\ UNCHANGED <<hasMore, loading, fetched, commentList>>
       ELSE UNCHANGED <<feedLocal, inflight>>
    /\ event' = Ev("handleLoadMore", NoId, "none", NoReq)
    /\ UNCHANGED <<session, route, detailId, posts, lists, profileLocal, exploreLocal, chain>>

\* ---- Profile --------------------------------------------------------------
FollowKinds == {"follow", "unfollow"}

setUserPostsList(prev, username, postIds) ==
    [x \in DOMAIN prev \cup {username} |-> IF x = username THEN postIds ELSE prev[x]]

NoUserPosts == [x \in {} |-> <<>>]

GoProfile ==
    /\ route # "profile"
    /\ HasRoom
    /\ route' = "profile" /\ detailId' = NoId
    /\ UnmountFeed /\ UnmountProfile /\ UnmountExplore
    /\ inflight' = Append(Orphan(inflight), Req("getProfile", NoId, 0, FALSE, 0, NoPost))
    /\ event' = Ev("goProfile", NoId, "none", NoReq)
    /\ UNCHANGED <<session, posts, lists, chain>>

\* fetchProfile after userAPI.getProfile(username) is answered
ProfileResponse(i, is_following, followers_count, profilePosts) ==
    /\ i \in 1..Len(inflight)
    /\ inflight[i].kind = "getProfile"
    /\ is_following \in BOOLEAN
    /\ followers_count \in 0..MaxFollowers
    /\ IF inflight[i].live
       THEN /\ profile' = [loaded |-> TRUE, followers_count |-> followers_count]
            /\ following' = is_following
       ELSE UNCHANGED profileLocal
    /\ IF Len(profilePosts) > 0
       THEN /\ posts' = setPostsBatch(posts, profilePosts)
            /\ userPosts' = setUserPostsList(userPosts, "u", PostIdsOf(profilePosts))
            /\ inflight' = Dirty(RemoveAt(inflight, i), IdSet(profilePosts),
                                 {"like", "comment"})
            /\ chain' = ChainReset(chain, IdSet(profilePosts))
       ELSE /\ inflight' = RemoveAt(inflight, i)
            /\ UNCHANGED <<posts, userPosts, chain>>
    /\ event' = Ev("fetchProfile", NoId, "returned", inflight[i])
    /\ UNCHANGED <<session, route, detailId, feedPosts, feedLocal, exploreLocal>>

\* catch: toast and navigate('/')
ProfileRejected(i, status) ==
    /\ i \in 1..Len(inflight)
    /\ inflight[i].kind = "getProfile"
    /\ NavigateFeed(RemoveAt(inflight, i))
    /\ event' = Failed(Ev("fetchProfile", NoId, "thrown", inflight[i]), status)
    /\ ResponseInterceptor(status)
    /\ UNCHANGED <<memory, posts, lists, chain>>

ProfileFail(i) == ProfileRejected(i, ServerError)

\* a handleFollow that sets the flag and the count before it awaits
ProfileHandleFollowOptimistic ==
    /\ route = "profile"
    /\ profile.loaded
    /\ IF ~isAuthenticated
       THEN NavigateLogin(inflight)
       ELSE /\ HasRoom
            /\ profile.followers_count \in 0..MaxFollowers
            /\ inflight' = Append(inflight,
                                  Req(IF following THEN "unfollow" ELSE "follow",
                                      NoId, 0, following, profile.followers_count, NoPost))
            /\ following' = ~following
            /\ profile' = [profile EXCEPT !.followers_count =
                              IF following THEN @ - 1 ELSE @ + 1]
            /\ UNCHANGED <<route, detailId, feedLocal, exploreLocal>>
    /\ event' = Ev("handleFollow", NoId, "none", NoReq)
    /\ UNCHANGED <<session, posts, lists, chain>>

\* Profile.handleFollow up to its await
ProfileHandleFollow ==
    /\ route = "profile"
    /\ profile.loaded
    /\ IF ~isAuthenticated
       THEN NavigateLogin(inflight)
       ELSE /\ HasRoom
            /\ profile.followers_count \in 0..MaxFollowers
            /\ inflight' = Append(inflight,
                                  Req(IF following THEN "unfollow" ELSE "follow",
                                      NoId, 0, following, profile.followers_count, NoPost))
            /\ UNCHANGED <<route, detailId, feedLocal, profileLocal, exploreLocal>>
    /\ event' = Ev("handleFollow", NoId, "none", NoReq)
    /\ UNCHANGED <<session, posts, lists, chain>>

\* userAPI.follow / unfollow answered: setFollowing and setProfile
ProfileFollowOk(i) ==
    /\ i \in 1..Len(inflight)
    /\ inflight[i].kind \in FollowKinds
    /\ IF inflight[i].live
       THEN /\ following' = ~inflight[i].was
            /\ profile' = [profile EXCEPT !.followers_count =
                              IF inflight[i].was THEN @ - 1 ELSE @ + 1]
       ELSE UNCHANGED profileLocal
    /\ inflight' = IF inflight[i].live
                   THEN Dirty(RemoveAt(inflight, i), {NoId}, {"follow"})
                   ELSE RemoveAt(inflight, i)
    /\ event' = Ev("follow", NoId, "returned", inflight[i])
    /\ UNCHANGED <<session, route, detailId, posts, lists, feedLocal, exploreLocal, chain>>

ProfileFollowRejected(i, status) ==
    /\ i \in 1..Len(inflight)
    /\ inflight[i].kind \in FollowKinds
    /\ inflight' = RemoveAt(inflight, i)
    /\ event' = Failed(Ev("follow", NoId, "thrown", inflight[i]), status)
    /\ ResponseInterceptor(status)
    /\ UNCHANGED <<memory, route, detailId, posts, lists, feedLocal, profileLocal,
                   exploreLocal, chain>>

ProfileFollowFail(i) == ProfileFollowRejected(i, ServerError)

\* ---- Explore ---------------------------------------------------------------
UserIds == 1..MaxUserId
ExFollowKinds == {"exFollow", "exUnfollow"}

\* the effect of Explore: without a session navigate('/login'), else fetchUsers
GoExplore ==
    /\ route # "explore"
    /\ IF ~isAuthenticated
       THEN NavigateLogin(inflight)
       ELSE /\ HasRoom
            /\ route' = "explore" /\ detailId' = NoId
            /\ UnmountFeed /\ UnmountProfile /\ UnmountExplore
            /\ inflight' = Append(Orphan(inflight),
                                  Req("getUsers", NoId, 0, FALSE, 0, NoPost))
    /\ event' = Ev("goExplore", NoId, "none", NoReq)
    /\ UNCHANGED <<session, posts, lists, chain>>

\* fetchUsers after userAPI.getAllUsers() is answered
ExploreResponse(i, counts, states) ==
    /\ i \in 1..Len(inflight)
    /\ inflight[i].kind = "getUsers"
    /\ counts \in [UserIds -> 0..MaxFollowers]
    /\ states \in [UserIds -> BOOLEAN]
    /\ IF inflight[i].live
       THEN users' = counts /\ followingStates' = states
       ELSE UNCHANGED exploreLocal
    /\ inflight' = RemoveAt(inflight, i)
    /\ event' = Ev("fetchUsers", NoId, "returned", inflight[i])
    /\ UNCHANGED <<session, route, detailId, posts, lists, feedLocal, profileLocal, chain>>

ExploreRejected(i, status) ==
    /\ i \in 1..Len(inflight)
    /\ inflight[i].kind = "getUsers"
    /\ inflight' = RemoveAt(inflight, i)
    /\ event' = Failed(Ev("fetchUsers", NoId, "thrown", inflight[i]), status)
    /\ ResponseInterceptor(status)
    /\ UNCHANGED <<memory, route, detailId, posts, lists, feedLocal, profileLocal,
                   exploreLocal, chain>>

ExploreFail(i) == ExploreRejected(i, ServerError)

\* Explore.handleFollow(userId, username, currentFollowingState) up to its await
ExploreHandleFollow(userId) ==
    /\ route = "explore"
    /\ userId \in DOMAIN users
    /\ IF ~isAuthenticated
       THEN NavigateLogin(inflight)
       ELSE /\ HasRoom
            /\ users[userId] \in 0..MaxFollowers
            /\ inflight' = Append(inflight,
                                  Req(IF followingStates[userId] THEN "exUnfollow"
                                      ELSE "exFollow",
                                      userId, 0, followingStates[userId],
                                      users[userId], NoPost))
            /\ UNCHANGED <<route, detailId, feedLocal, profileLocal, exploreLocal>>
    /\ event' = Ev("handleFollow", userId, "none", NoReq)
    /\ UNCHANGED <<session, posts, lists, chain>>

ExploreFollowOk(i) ==
    /\ i \in 1..Len(inflight)
    /\ inflight[i].kind \in ExFollowKinds
    /\ LET r == inflight[i]
       IN IF r.live
          THEN /\ followingStates' = [followingStates EXCEPT ![r.id] = ~r.was]
               /\ users' = [users EXCEPT ![r.id] =
                               IF r.was THEN Max(0, @ - 1) ELSE @ + 1]
          ELSE UNCHANGED exploreLocal
    /\ inflight' = IF inflight[i].live
                   THEN Dirty(RemoveAt(inflight, i), {inflight[i].id}, {"exFollow"})
                   ELSE RemoveAt(inflight, i)
    /\ event' = Ev("follow", inflight[i].id, "returned", inflight[i])
    /\ UNCHANGED <<session, route, detailId, posts, lists, feedLocal, profileLocal, chain>>

ExploreFollowRejected(i, status) ==
    /\ i \in 1..Len(inflight)
    /\ inflight[i].kind \in ExFollowKinds
    /\ inflight' = RemoveAt(inflight, i)
    /\ event' = Failed(Ev("follow", inflight[i].id, "thrown", inflight[i]), status)
    /\ ResponseInterceptor(status)
    /\ UNCHANGED <<memory, route, detailId, posts, lists, feedLocal, profileLocal,
                   exploreLocal, chain>>

ExploreFollowFail(i) == ExploreFollowRejected(i, ServerError)

\* ---- session ---------------------------------------------------------------
GoLogin ==
    /\ route # "login"
    /\ NavigateLogin(inflight)
    /\ event' = Ev("goLogin", NoId, "none", NoReq)
    /\ UNCHANGED <<session, posts, lists, chain>>

\* AuthContext.login up to its await
LoginSubmit ==
    /\ route = "login"
    /\ HasRoom
    /\ inflight' = Append(inflight, Req("login", NoId, 0, FALSE, 0, NoPost))
    /\ event' = Ev("login", NoId, "none", NoReq)
    /\ UNCHANGED <<session, route, detailId, posts, lists, feedLocal, profileLocal,
                   exploreLocal, chain>>

\* login after authAPI.login is answered with a token and a user; a Feed that
\* is mounted sees isAuthenticated change and its effect runs fetchFeed
LoginOk(i) ==
    /\ i \in 1..Len(inflight)
    /\ inflight[i].kind = "login"
    /\ storedToken' = "token" /\ storedUser' = "user"
    /\ token' = "token" /\ user' = "user"
    /\ IF route = "feed" /\ ~isAuthenticated
       THEN /\ loading' = TRUE
            /\ inflight' = Append(RemoveAt(inflight, i), GetFeedReq(page))
            /\ UNCHANGED <<page, hasMore, loadingMore, fetched, commentList>>
       ELSE /\ inflight' = RemoveAt(inflight, i)
            /\ UNCHANGED feedLocal
    /\ event' = Ev("login", NoId, "returned", inflight[i])
    /\ UNCHANGED <<route, detailId, posts, lists, profileLocal, exploreLocal, chain>>

LoginRejected(i, status) ==
    /\ i \in 1..Len(inflight)
    /\ inflight[i].kind = "login"
    /\ inflight' = RemoveAt(inflight, i)
    /\ event' = Failed(Ev("login", NoId, "thrown", inflight[i]), status)
    /\ ResponseInterceptor(status)
    /\ UNCHANGED <<memory, route, detailId, posts, lists, feedLocal, profileLocal,
                   exploreLocal, chain>>

LoginFail(i) == LoginRejected(i, ServerError)

\* a logout that forgets the stored session
logoutMemoryOnly == token' = Null /\ user' = Null /\ UNCHANGED storage

\* AuthContext.logout
logout ==
    /\ storedToken' = Null /\ storedUser' = Null
    /\ token' = Null /\ user' = Null

\* a clearPosts that empties the cache and leaves the lists
clearPostsCacheOnly == posts' = EmptyPosts /\ UNCHANGED lists

\* PostContext.clearPosts
clearPosts == posts' = EmptyPosts /\ feedPosts' = <<>> /\ userPosts' = NoUserPosts

\* Navbar.handleLogout: logout(); clearPosts(); navigate('/login')
HandleLogout ==
    /\ isAuthenticated
    /\ logout
    /\ clearPosts
    /\ NavigateLogin(Dirty(inflight, PostIds, {"like", "comment"}))
    /\ chain' = ChainReset(chain, PostIds)
    /\ event' = Ev("handleLogout", NoId,
                   IF posts # EmptyPosts /\ feedPosts # <<>> /\ userPosts # NoUserPosts
                   THEN "cleared" ELSE "none", NoReq)

\* ---- deleting a post --------------------------------------------------------
\* the posts whose user_id is the id of the session's user
OwnPostIds == {1}

\* PostContext.getPost: posts[postId] || null, NoPost standing for null
getPost(ps, postId) == IF postId \in DOMAIN ps THEN ps[postId] ELSE NoPost

removePost(ps, postId) == [x \in DOMAIN ps \ {postId} |-> ps[x]]

removeId(list, postId) == SelectSeq(list, LAMBDA x : x # postId)

\* a removal that forgets the per-user lists
deletePostFromFeedOnly(postId) ==
    /\ posts' = removePost(posts, postId)
    /\ feedPosts' = removeId(feedPosts, postId)
    /\ UNCHANGED userPosts

\* PostContext.deletePost once the server has confirmed: the post leaves the
\* cache, the feed and every per-user list
deletePost(postId) ==
    /\ posts' = removePost(posts, postId)
    /\ feedPosts' = removeId(feedPosts, postId)
    /\ userPosts' = [u \in DOMAIN userPosts |-> removeId(userPosts[u], postId)]

DeleteKinds == {"deleteCard", "deleteDetail", "deleteProfile"}

DeleteReq(kind, postId) == Req(kind, postId, 0, FALSE, 0, getPost(posts, postId))

\* the frame of a delete handler up to its await
DeleteAwaited(kind, postId) ==
    /\ inflight' = Append(inflight, DeleteReq(kind, postId))
    /\ event' = Ev("handleDelete", postId, "none", NoReq)
    /\ UNCHANGED <<session, route, detailId, posts, lists, feedLocal, profileLocal,
                   exploreLocal, chain>>

\* PostCard.handleDelete, confirmed by the user
PostCardHandleDelete(postId) ==
    /\ FeedListRendered
    /\ postId \in Range(postsList)
    /\ postId \in OwnPostIds
    /\ HasRoom
    /\ DeleteAwaited("deleteCard", postId)

\* PostDetail.handleDelete, confirmed by the user
PostDetailHandleDelete ==
    /\ route = "post"
    /\ isAuthenticated
    /\ detailId \in DOMAIN posts
    /\ detailId \in OwnPostIds
    /\ HasRoom
    /\ DeleteAwaited("deleteDetail", detailId)

\* Profile.handleDeletePost on the own profile, confirmed by the user
ProfileHandleDeletePost(postId) ==
    /\ route = "profile"
    /\ profile.loaded
    /\ isAuthenticated
    /\ "u" \in DOMAIN userPosts
    /\ postId \in Range(userPosts["u"])
    /\ postId \in OwnPostIds
    /\ HasRoom
    /\ DeleteAwaited("deleteProfile", postId)

\* history: whether the cache or a list held the post when it was removed
Listed(postId) ==
    \/ postId \in DOMAIN posts
    \/ postId \in Range(feedPosts)
    \/ \E u \in DOMAIN userPosts : postId \in Range(userPosts[u])

\* deletePost resolved, then the handler: PostDetail navigates to '/'
DeleteOk(i) ==
    /\ i \in 1..Len(inflight)
    /\ inflight[i].kind \in DeleteKinds
    /\ LET r == inflight[i]
           rest == Dirty(RemoveAt(inflight, i), {r.id}, {"like", "comment"})
       IN /\ deletePost(r.id)
          /\ IF r.kind = "deleteDetail"
             THEN NavigateFeed(rest)
             ELSE /\ inflight' = rest
                  /\ UNCHANGED <<route, detailId, feedLocal, profileLocal, exploreLocal>>
          /\ chain' = ChainReset(chain, {r.id})
          /\ event' = Ev("deletePost", r.id,
                         IF Listed(r.id) THEN "removed" ELSE "absent", r)
    /\ UNCHANGED session

\* deletePost rejected: nothing was removed and nothing is restored
DeleteRejected(i, status) ==
    /\ i \in 1..Len(inflight)
    /\ inflight[i].kind \in DeleteKinds
    /\ inflight' = RemoveAt(inflight, i)
    /\ event' = Failed(Ev("deletePost", inflight[i].id, "thrown", inflight[i]), status)
    /\ ResponseInterceptor(status)
    /\ UNCHANGED <<memory, route, detailId, posts, lists, feedLocal, profileLocal,
                   exploreLocal, chain>>

DeleteFail(i) == DeleteRejected(i, ServerError)

\* ---- CreatePost ----------------------------------------------------------------
\* the page mounts; its effect sends a visitor without session to /login
GoCreate ==
    /\ route # "create"
    /\ IF ~isAuthenticated
       THEN NavigateLogin(inflight)
       ELSE /\ route' = "create" /\ detailId' = NoId
            /\ UnmountFeed /\ UnmountProfile /\ UnmountExplore
            /\ inflight' = Orphan(inflight)
    /\ event' = Ev("goCreate", NoId, "none", NoReq)
    /\ UNCHANGED <<session, posts, lists, chain>>

\* handleSubmit with an image chosen, up to its await
CreateSubmit ==
    /\ route = "create"
    /\ isAuthenticated
    /\ HasRoom
    /\ inflight' = Append(inflight, Req("create", NoId, 0, FALSE, 0, NoPost))
    /\ event' = Ev("createPost", NoId, "none", NoReq)
    /\ UNCHANGED <<session, route, detailId, posts, lists, feedLocal, profileLocal,
                   exploreLocal, chain>>

\* an addNewPost that puts the id behind the ids the feed already lists
addNewPostAtEnd(post) ==
    /\ posts' = setPost(posts, post)
    /\ feedPosts' = Append(feedPosts, post.id)

\* PostContext.addNewPost: setPost(post), then the id in front of the feed
addNewPost(post) ==
    /\ posts' = setPost(posts, post)
    /\ feedPosts' = <<post.id>> \o feedPosts

\* postAPI.create answered with the new post: addNewPost, navigate('/')
CreateOk(i, newPost) ==
    /\ i \in 1..Len(inflight)
    /\ inflight[i].kind = "create"
    /\ Len(feedPosts) < MaxFeedLen
    /\ addNewPost(newPost)
    /\ NavigateFeed(Dirty(RemoveAt(inflight, i), {newPost.id}, {"like", "comment"}))
    /\ chain' = ChainReset(chain, {newPost.id})
    /\ event' = Ev("createPost", newPost.id, "returned", inflight[i])
    /\ UNCHANGED <<session, userPosts>>

CreateRejected(i, status) ==
    /\ i \in 1..Len(inflight)
    /\ inflight[i].kind = "create"
    /\ inflight' = RemoveAt(inflight, i)
    /\ event' = Failed(Ev("createPost", NoId, "thrown", inflight[i]), status)
    /\ ResponseInterceptor(status)
    /\ UNCHANGED <<memory, route, detailId, posts, lists, feedLocal, profileLocal,
                   exploreLocal, chain>>

\* ---- signup -----------------------------------------------------------------
\* navigate('/signup')
NavigateSignup(reqs) ==
    /\ route' = "signup" /\ detailId' = NoId /\ inflight' = Orphan(reqs)
    /\ UnmountFeed /\ UnmountProfile /\ UnmountExplore

GoSignup ==
    /\ route # "signup"
    /\ NavigateSignup(inflight)
    /\ event' = Ev("goSignup", NoId, "none", NoReq)
    /\ UNCHANGED <<session, posts, lists, chain>>

\* AuthContext.signup up to its await
SignupSubmit ==
    /\ route = "signup"
    /\ HasRoom
    /\ inflight' = Append(inflight, Req("signup", NoId, 0, FALSE, 0, NoPost))
    /\ event' = Ev("signup", NoId, "none", NoReq)
    /\ UNCHANGED <<session, route, detailId, posts, lists, feedLocal, profileLocal,
                   exploreLocal, chain>>

\* a signup that signs the new account in, as login does
signupStoring ==
    /\ storedToken' = "token" /\ storedUser' = "user"
    /\ token' = "token" /\ user' = "user"

\* signup after authAPI.signup is answered: nothing of the answer is kept and
\* the session, stored and in memory, is cleared
signup ==
    /\ storedToken' = Null /\ storedUser' = Null
    /\ token' = Null /\ user' = Null

\* a mounted Feed sees isAuthenticated change and its effect ends the loading
\* state; a mounted Explore or CreatePost navigates to /login
SignupOk(i) ==
    /\ i \in 1..Len(inflight)
    /\ inflight[i].kind = "signup"
    /\ signup
    /\ IF route \in {"explore", "create"} /\ isAuthenticated
       THEN NavigateLogin(RemoveAt(inflight, i))
       ELSE /\ inflight' = RemoveAt(inflight, i)
            /\ loading' = IF route = "feed" /\ isAuthenticated THEN FALSE ELSE loading
            /\ UNCHANGED <<route, detailId, page, hasMore, loadingMore, fetched, commentList,
                           profileLocal, exploreLocal>>
    /\ event' = Ev("signup", NoId, "returned", inflight[i])
    /\ UNCHANGED <<posts, lists, chain>>

\* signup when authAPI.signup fails: an error object is returned
SignupRejected(i, status) ==
    /\ i \in 1..Len(inflight)
    /\ inflight[i].kind = "signup"
    /\ inflight' = RemoveAt(inflight, i)
    /\ event' = Failed(Ev("signup", NoId, "thrown", inflight[i]), status)
    /\ ResponseInterceptor(status)
    /\ UNCHANGED <<memory, route, detailId, posts, lists, feedLocal, profileLocal,
                   exploreLocal, chain>>

SignupFail(i) == SignupRejected(i, ServerError)

\* ---- the page is loaded: AuthProvider's initAuth effect ----------------------
Times == 0..MaxTime

\* jwtDecode(storedToken): it throws, or gives the claims of the token
JwtDecoded == {[ok |-> FALSE, exp |-> 0]} \cup {[ok |-> TRUE, exp |-> e] : e \in Times}

\* a check that takes every decodable token for a live one
TokenLiveUnchecked(decoded, currentTime) == TRUE

\* decoded.exp > currentTime
TokenLive(decoded, currentTime) == decoded.exp > currentTime

initAuth(decoded, currentTime) ==
    IF storedToken # Null /\ storedUser # Null
    THEN IF decoded.ok /\ TokenLive(decoded, currentTime)
         THEN token' = storedToken /\ user' = storedUser /\ UNCHANGED storage
         ELSE /\ storedToken' = Null /\ storedUser' = Null
              /\ token' = Null /\ user' = Null
    ELSE token' = Null /\ user' = Null /\ UNCHANGED storage

\* history: what initAuth did with the stored session
LoadOutcome(decoded, currentTime) ==
    IF storedToken = Null \/ storedUser = Null THEN "none"
    ELSE IF ~decoded.ok THEN "undecodable"
    ELSE IF TokenLive(decoded, currentTime) THEN "restored"
    ELSE "expired"

\* the document is loaded at /login, by the user or by the interceptor's
\* window.location.href: every state of the page starts from its initial
\* value, the calls the old document awaited are never continued, and the
\* stored session is read
PageLoad(decoded, currentTime) ==
    /\ initAuth(decoded, currentTime)
    /\ route' = "login" /\ detailId' = NoId
    /\ clearPosts
    /\ UnmountFeed /\ UnmountProfile /\ UnmountExplore
    /\ inflight' = <<>>
    /\ chain' = ChainReset(chain, PostIds)
    /\ event' = Ev("load", NoId, LoadOutcome(decoded, currentTime), NoReq)

\* ---- the operations PostProvider hands to its consumers ----------------------
\* the updates a consumer passes to updatePost: some of the fields of a post
PostUpdates ==
    {[is_liked |-> l, like_count |-> n] : l \in BOOLEAN, n \in 0..MaxLikes}
        \cup {[comment_count |-> n] : n \in 0..MaxComments}

\* a call of a PostContext operation by a consumer, outside any page handler
ContextCall(op, postId, result) ==
    /\ event' = Ev(op, postId, result, NoReq)
    /\ UNCHANGED <<session, route, detailId, lists, feedLocal, profileLocal, exploreLocal>>

SetPostCall(post) ==
    /\ posts' = setPost(posts, post)
    /\ inflight' = Dirty(inflight, {post.id}, {"like", "comment"})
    /\ chain' = ChainReset(chain, {post.id})
    /\ ContextCall("setPost", post.id, "none")

UpdatePostCall(postId, updates) ==
    /\ posts' = updatePost(posts, postId, updates)
    /\ inflight' = Dirty(inflight, {postId}, {"like", "comment"})
    /\ chain' = ChainReset(chain, {postId})
    /\ ContextCall("updatePost", postId,
                   IF postId \in DOMAIN posts THEN "merged" ELSE "absent")

\* a likePost that fetches an absent post as toggleLike does
likePostFetchingAbsent(postId) ==
    IF postId \notin DOMAIN posts
    THEN /\ HasRoom
         /\ inflight' = Append(inflight, Req("toggleFetch", postId, 0, FALSE, 0, NoPost))
         /\ UNCHANGED posts
    ELSE LET post == posts[postId]
             wasLiked == post.is_liked
             oldLikeCount == post.like_count
         IN /\ HasRoom
            /\ posts' = updatePost(posts, postId,
                    [is_liked |-> TRUE,
                     like_count |-> oldLikeCount + (IF wasLiked THEN 0 ELSE 1)])
            /\ inflight' = Append(Dirty(inflight, {postId}, {"like"}),
                                  Req("like", postId, 0, wasLiked, oldLikeCount, post))

\* likePost up to its await
likePost(postId) ==
    IF postId \notin DOMAIN posts
    THEN UNCHANGED <<posts, inflight>>
    ELSE LET post == posts[postId]
             wasLiked == post.is_liked
             oldLikeCount == post.like_count
         IN /\ HasRoom
            /\ posts' = updatePost(posts, postId,
                    [is_liked |-> TRUE,
                     like_count |-> oldLikeCount + (IF wasLiked THEN 0 ELSE 1)])
            /\ inflight' = Append(Dirty(inflight, {postId}, {"like"}),
                                  Req("like", postId, 0, wasLiked, oldLikeCount, post))

\* an unlikePost that subtracts without Math.max
UnlikeUpdatesUnclamped(wasLiked, oldLikeCount) ==
    [is_liked |-> FALSE,
     like_count |-> oldLikeCount - (IF wasLiked THEN 1 ELSE 0)]

UnlikeUpdates(wasLiked, oldLikeCount) ==
    [is_liked |-> FALSE,
     like_count |-> Max(0, oldLikeCount - (IF wasLiked THEN 1 ELSE 0))]

\* unlikePost up to its await
unlikePost(postId) ==
    IF postId \notin DOMAIN posts
    THEN UNCHANGED <<posts, inflight>>
    ELSE LET post == posts[postId]
             wasLiked == post.is_liked
             oldLikeCount == post.like_count
         IN /\ HasRoom
            /\ posts' = updatePost(posts, postId, UnlikeUpdates(wasLiked, oldLikeCount))
            /\ inflight' = Append(Dirty(inflight, {postId}, {"like"}),
                                  Req("unlike", postId, 0, wasLiked, oldLikeCount, post))

LikePostCall(postId) ==
    /\ likePost(postId)
    /\ chain' = ChainReset(chain, {postId})
    /\ ContextCall("likePost", postId, "none")

UnlikePostCall(postId) ==
    /\ unlikePost(postId)
    /\ chain' = ChainReset(chain, {postId})
    /\ ContextCall("unlikePost", postId,
                   IF postId \in DOMAIN posts /\ posts[postId].like_count = 0
                   THEN "atZero" ELSE "none")

\* a consumer awaits addComment(postId, text, user); for an absent post the
\* call returns before its first await
AddCommentCall(postId) ==
    /\ postId \in DOMAIN posts => HasRoom
    /\ CanComment(postId)
    /\ addComment(postId)
    /\ ContextCall("addComment", postId, "none")
    /\ UNCHANGED chain

ToggleLikeCall(postId) ==
    /\ HasRoom
    /\ toggleLike(postId)
    /\ ContextCall("toggleLike", postId,
                   IF postId \in DOMAIN posts /\ posts[postId].like_count = 0
                      /\ posts[postId].is_liked
                   THEN "atZero" ELSE "none")

\* ---- the system -------------------------------------------------------------
Init ==
    /\ token = Null /\ user = Null
    /\ storedToken = Null /\ storedUser = Null
    /\ route = "login" /\ detailId = NoId
    /\ posts = EmptyPosts /\ feedPosts = <<>> /\ userPosts = NoUserPosts
    /\ page = 1 /\ hasMore = TRUE /\ loading = TRUE /\ loadingMore = FALSE
    /\ profile = NoProfile /\ following = FALSE
    /\ users = NoUsers /\ followingStates = NoUsers
    /\ inflight = <<>>
    /\ event = Ev("init", NoId, "none", NoReq)
    /\ chain = [x \in PostIds |-> NoChain]
    /\ fetched = NoFetched
    /\ commentList = NoCommentList

\* ---- the steps, grouped by the component that takes them -------------------
SessionNext ==
    \/ GoLogin
    \/ LoginSubmit
    \/ \E i \in 1..MaxInflight : LoginOk(i)
    \/ \E i \in 1..MaxInflight : LoginFail(i)
    \/ HandleLogout

AccountNext ==
    \/ \E decoded \in JwtDecoded, currentTime \in Times : PageLoad(decoded, currentTime)
    \/ GoSignup
    \/ SignupSubmit
    \/ \E i \in 1..MaxInflight : SignupOk(i)
    \/ \E i \in 1..MaxInflight : SignupFail(i)

\* the calls answered with 401
SessionUnauthorized ==
    \/ \E i \in 1..MaxInflight : LoginRejected(i, Unauthorized)
    \/ \E i \in 1..MaxInflight : SignupRejected(i, Unauthorized)

FeedUnauthorized == \E i \in 1..MaxInflight : FeedRejected(i, Unauthorized)

MutationUnauthorized ==
    \/ \E i \in 1..MaxInflight : LikeRejected(i, Unauthorized)
    \/ \E i \in 1..MaxInflight : AddCommentRejected(i, Unauthorized)

OtherUnauthorized ==
    \/ \E i \in 1..MaxInflight : FetchPostRejected(i, Unauthorized)
    \/ \E i \in 1..MaxInflight : ToggleFetchRejected(i, Unauthorized)
    \/ \E i \in 1..MaxInflight : ProfileRejected(i, Unauthorized)
    \/ \E i \in 1..MaxInflight : ProfileFollowRejected(i, Unauthorized)
    \/ \E i \in 1..MaxInflight : ExploreRejected(i, Unauthorized)
    \/ \E i \in 1..MaxInflight : ExploreFollowRejected(i, Unauthorized)
    \/ \E i \in 1..MaxInflight : DeleteRejected(i, Unauthorized)
    \/ \E i \in 1..MaxInflight : CreateRejected(i, Unauthorized)

CreateNext(served) ==
    \/ GoCreate
    \/ CreateSubmit
    \/ \E i \in 1..MaxInflight, newPost \in served : CreateOk(i, newPost)
    \/ \E i \in 1..MaxInflight : CreateRejected(i, ServerError)

DeleteNext(ids) ==
    \/ \E postId \in ids : PostCardHandleDelete(postId)
    \/ PostDetailHandleDelete
    \/ \E postId \in ids : ProfileHandleDeletePost(postId)
    \/ \E i \in 1..MaxInflight : DeleteOk(i)
    \/ \E i \in 1..MaxInflight : DeleteFail(i)

\* pages: the sequences of posts the server answers getFeed with
FeedNext(pages, hasNexts) ==
    \/ GoFeed
    \/ \E i \in 1..MaxInflight, newPosts \in pages, has_next \in hasNexts :
          FeedResponse(i, newPosts, has_next)
    \/ \E i \in 1..MaxInflight : FeedFail(i)

PostCardNext(ids) ==
    \/ \E postId \in ids : PostCardHandleLike(postId)
    \/ \E postId \in ids : PostCardHandleComment(postId)

MutationNext ==
    \/ \E i \in 1..MaxInflight : LikeOk(i)
    \/ \E i \in 1..MaxInflight : LikeFail(i)
    \/ \E i \in 1..MaxInflight : AddCommentOk(i)
    \/ \E i \in 1..MaxInflight : AddCommentFail(i)

\* served: the posts the server answers postAPI.getById with
PostDetailNext(ids, served) ==
    \/ \E id \in ids : GoPost(id)
    \/ \E i \in 1..MaxInflight, p \in served : FetchPostOk(i, p)
    \/ \E i \in 1..MaxInflight : FetchPostFail(i)
    \/ PostDetailHandleLike
    \/ PostDetailHandleComment
    \/ \E i \in 1..MaxInflight, p \in served : ToggleFetchOk(i, p)
    \/ \E i \in 1..MaxInflight : ToggleFetchFail(i)

ProfileNext(counts, pages) ==
    \/ GoProfile
    \/ \E i \in 1..MaxInflight, is_following \in BOOLEAN, n \in counts,
          profilePosts \in pages : ProfileResponse(i, is_following, n, profilePosts)
    \/ \E i \in 1..MaxInflight : ProfileFail(i)
    \/ ProfileHandleFollow
    \/ \E i \in 1..MaxInflight : ProfileFollowOk(i)
    \/ \E i \in 1..MaxInflight : ProfileFollowFail(i)

ExploreNext(counts) ==
    \/ GoExplore
    \/ \E i \in 1..MaxInflight, cs \in [UserIds -> counts],
          states \in [UserIds -> BOOLEAN] : ExploreResponse(i, cs, states)
    \/ \E i \in 1..MaxInflight : ExploreFail(i)
    \/ \E userId \in UserIds : ExploreHandleFollow(userId)
    \/ \E i \in 1..MaxInflight : ExploreFollowOk(i)
    \/ \E i \in 1..MaxInflight : ExploreFollowFail(i)

CommentListNext(ids) ==
    \/ \E postId \in ids : ShowComments(postId)
    \/ CommentListEffect
    \/ \E i \in 1..MaxInflight : CommentsOk(i)
    \/ \E i \in 1..MaxInflight : CommentsFail(i)

AllServerPosts == UNION {ServerPost(id) : id \in PostIds}

\* ---- the whole front end ---------------------------------------------------
Next ==
    \/ SessionNext
    \/ FeedNext(ServerPages, HasNextValues)
    \/ HandleLoadMore
    \/ PostCardNext(PostIds)
    \/ MutationNext
    \/ PostDetailNext(PostIds, AllServerPosts)
    \/ ProfileNext(0..MaxFollowers, ServerPages)
    \/ ExploreNext(0..MaxFollowers)
    \/ AccountNext
    \/ SessionUnauthorized
    \/ FeedUnauthorized
    \/ MutationUnauthorized
    \/ OtherUnauthorized
    \/ DeleteNext(PostIds)
    \/ CreateNext(AllServerPosts)
    \/ CommentListNext(PostIds)
    \/ \E i \in 1..MaxInflight : CommentsRejected(i, Unauthorized)

Spec == Init /\ [][Next]_vars

\* ---- likes and comments on one post of the feed ----------------------------
FocusIds == {1}

OnePostPages == {<<>>} \cup {<<p>> : p \in ServerPost(1)}

LikeNext ==
    \/ SessionNext
    \/ FeedNext(OnePostPages, {"false"})
    \/ PostCardNext(FocusIds)
    \/ MutationNext

LikeSpec == Init /\ [][LikeNext]_vars

\* ---- the session: load, login, signup, logout and 401, with one post -------
StoredSessionNext ==
    \/ SessionNext
    \/ AccountNext
    \/ SessionUnauthorized
    \/ FeedNext(OnePostPages, {"false"})
    \/ FeedUnauthorized
    \/ PostCardNext(FocusIds)
    \/ MutationNext
    \/ MutationUnauthorized

AccountSpec == Init /\ [][StoredSessionNext]_vars

\* ---- the feed and its pagination: posts nobody likes or comments ----------
PlainPost(id) == PostOf(id, FALSE, 0, 0)

PlainPage(ids) == [i \in 1..Len(ids) |-> PlainPost(ids[i])]

\* a first page of PageSize posts and a second page of three new posts
FullPage == PlainPage([i \in 1..PageSize |-> i])
LastPage == PlainPage([i \in 1..3 |-> PageSize + i])

FeedPages == {PlainPage(ids) : ids \in IdPages} \cup {FullPage, LastPage}

PagingNext ==
    \/ SessionNext
    \/ FeedNext(FeedPages, HasNextValues)
    \/ HandleLoadMore

FeedSpec == Init /\ [][PagingNext]_vars

\* ---- the store by itself: consumers call its operations on two posts --------
StoreNext ==
    \/ \E post \in ServerPost(1) \cup {PlainPost(2)} : SetPostCall(post)
    \/ \E postId \in PostIds, updates \in PostUpdates : UpdatePostCall(postId, updates)
    \/ \E postId \in FocusIds : LikePostCall(postId)
    \/ \E postId \in FocusIds : UnlikePostCall(postId)
    \/ \E postId \in FocusIds : ToggleLikeCall(postId)
    \/ \E i \in 1..MaxInflight, p \in ServerPost(1) : ToggleFetchOk(i, p)
    \/ \E i \in 1..MaxInflight : ToggleFetchFail(i)
    \/ \E i \in 1..MaxInflight : LikeOk(i)
    \/ \E i \in 1..MaxInflight : LikeFail(i)

StoreSpec == Init /\ [][StoreNext]_vars

\* ---- deleting posts listed by the feed and by a profile --------------------
PlainPages == {PlainPage(ids) : ids \in IdPages}

\* Feed, Profile, PostDetail and CreatePost write the cache and the lists;
\* nobody likes, comments or follows
ListsNext ==
    \/ SessionNext
    \/ FeedNext(PlainPages, {"true", "false"})
    \/ HandleLoadMore
    \/ GoProfile
    \/ \E i \in 1..MaxInflight, profilePosts \in PlainPages :
          ProfileResponse(i, FALSE, 0, profilePosts)
    \/ \E i \in 1..MaxInflight : ProfileFail(i)
    \/ \E id \in OwnPostIds : GoPost(id)
    \/ \E i \in 1..MaxInflight : FetchPostOk(i, PlainPost(1))
    \/ \E i \in 1..MaxInflight : FetchPostFail(i)
    \/ CreateNext({PlainPost(id) : id \in PostIds})

ListsSpec == Init /\ [][ListsNext]_vars

RemovalNext ==
    \/ SessionNext
    \/ FeedNext(PlainPages, {"false"})
    \/ GoProfile
    \/ \E i \in 1..MaxInflight, profilePosts \in PlainPages :
          ProfileResponse(i, FALSE, 0, profilePosts)
    \/ \E i \in 1..MaxInflight : ProfileFail(i)
    \/ \E id \in OwnPostIds : GoPost(id)
    \/ \E i \in 1..MaxInflight : FetchPostOk(i, PlainPost(1))
    \/ \E i \in 1..MaxInflight : FetchPostFail(i)
    \/ DeleteNext(PostIds)

DeleteSpec == Init /\ [][RemovalNext]_vars

\* ---- following: Profile and Explore, with a feed that stays empty ----------
FollowNext ==
    \/ SessionNext
    \/ FeedNext({<<>>}, {"false"})
    \/ ProfileNext(0..MaxFollowers, {<<>>})
    \/ ExploreNext(0..MaxFollowers)

FollowSpec == Init /\ [][FollowNext]_vars

\* ---- every handler that asks for a session, with one post and one count ----
HandlerNext ==
    \/ SessionNext
    \/ FeedNext({<<>>, <<PlainPost(1)>>}, {"false"})
    \/ PostCardNext(FocusIds)
    \/ MutationNext
    \/ PostDetailNext(FocusIds, {PlainPost(1)})
    \/ ProfileNext({0}, {<<>>})
    \/ ExploreNext({0})

HandlerSpec == Init /\ [][HandlerNext]_vars

\* ---- the cache against the server's like state -------------------------------
\* the posts the server sends for id while it holds, or does not hold, a like
\* of the viewer for it
ServerPostNow(id) == {p \in ServerPost(id) : p.is_liked = chain[id].server}

\* a fetched post is stored while no like or unlike call for it is awaited
SyncSetPost(post) ==
    /\ post \in ServerPostNow(post.id)
    /\ ~PendingLike(inflight, post.id)
    /\ SetPostCall(post)

SyncToggleFetchOk(i, p) ==
    /\ p \in ServerPostNow(p.id)
    /\ ToggleFetchOk(i, p)

\* consumers toggle the like of a post whose fetches report the server's state
SyncNext ==
    \/ \E post \in ServerPost(1) : SyncSetPost(post)
    \/ \E postId \in FocusIds : ToggleLikeCall(postId)
    \/ \E i \in 1..MaxInflight, p \in ServerPost(1) : SyncToggleFetchOk(i, p)
    \/ \E i \in 1..MaxInflight : ToggleFetchFail(i)
    \/ \E i \in 1..MaxInflight : LikeOk(i)
    \/ \E i \in 1..MaxInflight : LikeFail(i)

SyncSpec == Init /\ [][SyncNext]_vars

\* ---- the like fields of one post, the server sending them paired -------------
\* the posts of the server in which a like of the viewer is counted
PairedPosts(id) == {p \in ServerPost(id) : p.is_liked => p.like_count >= 1}

PairedNext ==
    \/ \E post \in PairedPosts(1) : SetPostCall(post)
    \/ \E postId \in FocusIds : LikePostCall(postId)
    \/ \E postId \in FocusIds : UnlikePostCall(postId)
    \/ \E postId \in FocusIds : ToggleLikeCall(postId)
    \/ \E i \in 1..MaxInflight, p \in PairedPosts(1) : ToggleFetchOk(i, p)
    \/ \E i \in 1..MaxInflight : ToggleFetchFail(i)
    \/ \E i \in 1..MaxInflight : LikeOk(i)
    \/ \E i \in 1..MaxInflight : LikeFail(i)

PairedSpec == Init /\ [][PairedNext]_vars

\* ---- comments on one post of the feed, with its comment list open -----------
CommentingNext ==
    \/ SessionNext
    \/ FeedNext({PlainPage(<<1>>)}, {"false"})
    \/ \E postId \in FocusIds : PostCardHandleComment(postId)
    \/ \E i \in 1..MaxInflight : AddCommentOk(i)
    \/ \E i \in 1..MaxInflight : AddCommentFail(i)
    \/ CommentListNext(FocusIds)

CommentSpec == Init /\ [][CommentingNext]_vars

\* ---- a post is created while the feed is fetched ------------------------------
\* the id the server gives the post it creates: no post has it before
NewPostId == 2

CreatePending(reqs) == \E i \in 1..Len(reqs) : reqs[i].kind = "create"

\* one post is created at a time, and its id is new to the client
FirstCreateSubmit ==
    /\ NewPostId \notin DOMAIN posts
    /\ ~CreatePending(inflight)
    /\ CreateSubmit

\* the server lists the new post from the moment it handles the create call
FeedResponseSince(i, newPosts, has_next) ==
    /\ NewPostId \in IdSet(newPosts) =>
          CreatePending(inflight) \/ NewPostId \in DOMAIN posts
    /\ FeedResponse(i, newPosts, has_next)

CreatingNext ==
    \/ SessionNext
    \/ GoFeed
    \/ \E i \in 1..MaxInflight, newPosts \in PlainPages, has_next \in {"true", "false"} :
          FeedResponseSince(i, newPosts, has_next)
    \/ \E i \in 1..MaxInflight : FeedFail(i)
    \/ HandleLoadMore
    \/ GoCreate
    \/ FirstCreateSubmit
    \/ \E i \in 1..MaxInflight : CreateOk(i, PlainPost(NewPostId))
    \/ \E i \in 1..MaxInflight : CreateRejected(i, ServerError)

CreateSpec == Init /\ [][CreatingNext]_vars

\* ---- the mutating operations called for cached and for absent posts --------
\* post 1 enters the cache by setPost; post 2 never does
DirectNext ==
    \/ \E post \in ServerPost(1) : SetPostCall(post)
    \/ \E postId \in PostIds : LikePostCall(postId)
    \/ \E postId \in PostIds : UnlikePostCall(postId)
    \/ \E postId \in PostIds : AddCommentCall(postId)
    \/ MutationNext

DirectSpec == Init /\ [][DirectNext]_vars

\* ---- the claims -------------------------------------------------------------
LikeFields(post) == [is_liked |-> post.is_liked, like_count |-> post.like_count]

\* C1: when the network call of a toggleLike fails and nothing else has written
\* the like fields of the post since that call was invoked, the rollback leaves
\* is_liked and like_count at the values they had just before that call's own
\* optimistic change, and the failure is thrown again to the caller.  When the
\* failing call is the second toggle after a confirmed first one, the post is
\* left in the state after the first toggle, not in the state before it.
C1_RollbackToOwnSnapshot ==
    /\ [][\A i \in 1..MaxInflight :
            (LikeFail(i) /\ inflight[i].clean) =>
                /\ inflight[i].id \in DOMAIN posts'
                /\ LikeFields(posts'[inflight[i].id]) = LikeFields(inflight[i].pre)
                /\ event'.op = "toggleLike" /\ event'.result = "thrown"]_vars
    /\ [](\A id \in PostIds :
            chain[id].st = 5 =>
                /\ id \in DOMAIN posts
                /\ posts[id].is_liked = ~chain[id].liked
                /\ posts[id].like_count =
                      IF chain[id].liked THEN Max(0, chain[id].count - 1)
                      ELSE chain[id].count + 1)

\* a second toggle failed after a confirmed first toggle of a post that was
\* not liked: the post is still liked, with one more like than at the start
C1_Witness ==
    /\ chain[1].st = 5
    /\ ~chain[1].liked
    /\ event.op = "toggleLike" /\ event.result = "thrown" /\ event.clean
    /\ posts[1].is_liked

\* C2 as stated: after two confirmed toggles in a row, with nothing else
\* writing the like fields, every cached post has the is_liked and like_count
\* it started with
C2_AsStated ==
    \A id \in PostIds :
        chain[id].st = 4 =>
            /\ id \in DOMAIN posts
            /\ posts[id].is_liked = chain[id].liked
            /\ posts[id].like_count = chain[id].count

\* C2: two confirmed toggles in a row, with nothing else writing the like
\* fields, return is_liked and like_count to the values they started with,
\* unless the post started liked with like_count 0: the unlike clamps at 0 and
\* the like that follows ends at like_count 1
C2_ToggleTwice ==
    \A id \in PostIds :
        chain[id].st = 4 =>
            /\ id \in DOMAIN posts
            /\ posts[id].is_liked = chain[id].liked
            /\ posts[id].like_count =
                  IF chain[id].liked /\ chain[id].count = 0 THEN 1 ELSE chain[id].count

\* a liked post with one like has been unliked and liked again
C2_Witness ==
    /\ chain[1].st = 4
    /\ chain[1].liked /\ chain[1].count = 1
    /\ posts[1].is_liked /\ posts[1].like_count = 1

C4_AsStated ==
    \A i \in 1..Len(inflight) :
        LET r == inflight[i]
        IN (r.live /\ r.clean) =>
            /\ r.kind \in FollowKinds => following = ~r.was
            /\ r.kind \in ExFollowKinds =>
                  (r.id \in DOMAIN followingStates /\ followingStates[r.id] = ~r.was)

\* C4: handleFollow of Profile and of Explore changes neither the follow flag
\* nor followers_count when it is invoked; while the call is awaited they stay
\* at the values they had at the invocation; the flag is flipped and the count
\* moved by one only when the call has succeeded; a failed call leaves both as
\* they are (there is nothing to revert)
C4_FollowAfterConfirmation ==
    /\ [][(ProfileHandleFollow /\ isAuthenticated) => UNCHANGED profileLocal]_vars
    /\ [][\A userId \in UserIds :
            (ExploreHandleFollow(userId) /\ isAuthenticated) =>
                UNCHANGED exploreLocal]_vars
    /\ [](\A i \in 1..Len(inflight) :
            LET r == inflight[i]
            IN (r.live /\ r.clean) =>
                /\ r.kind \in FollowKinds =>
                      (following = r.was /\ profile.followers_count = r.old)
                /\ r.kind \in ExFollowKinds =>
                      /\ r.id \in DOMAIN users
                      /\ followingStates[r.id] = r.was
                      /\ users[r.id] = r.old)
    /\ [][\A i \in 1..MaxInflight :
            (ProfileFollowOk(i) /\ inflight[i].live) =>
                /\ following' = ~inflight[i].was
                /\ profile'.followers_count = profile.followers_count
                      + (IF inflight[i].was THEN -1 ELSE 1)]_vars
    /\ [][\A i \in 1..MaxInflight :
            (ExploreFollowOk(i) /\ inflight[i].live) =>
                LET r == inflight[i]
                IN /\ followingStates'[r.id] = ~r.was
                   /\ users'[r.id] = IF r.was THEN Max(0, users[r.id] - 1)
                                     ELSE users[r.id] + 1]_vars
    /\ [][\A i \in 1..MaxInflight :
            (ProfileFollowFail(i) \/ ExploreFollowFail(i)) =>
                UNCHANGED <<profileLocal, exploreLocal>>]_vars

\* a follow on the profile page has been confirmed by the server, and only
\* then is the profile shown as followed, with its first follower
C4_Witness ==
    /\ route = "profile"
    /\ event.op = "follow" /\ event.result = "returned" /\ event.clean
    /\ following /\ profile.followers_count = 1

\* the handlers behind the like button, the comment form and the follow button
SessionHandlers ==
    \/ \E postId \in PostIds : PostCardHandleLike(postId)
    \/ \E postId \in PostIds : PostCardHandleComment(postId)
    \/ PostDetailHandleLike
    \/ PostDetailHandleComment
    \/ ProfileHandleFollow
    \/ \E userId \in UserIds : ExploreHandleFollow(userId)

\* the calls awaited, whatever page they belong to
Awaited(reqs) == [i \in 1..Len(reqs) |-> [reqs[i] EXCEPT !.live = TRUE]]

\* C5: a like, a comment or a follow attempted through its handler without a
\* session changes no post of the cache and neither list, awaits no new
\* network call, and sets no follow flag or count: the page either keeps its
\* follow state or is left for the login page
C5_NoSessionNoEffect ==
    [][(~isAuthenticated /\ SessionHandlers) =>
          /\ UNCHANGED <<posts, feedPosts, userPosts, session>>
          /\ Awaited(inflight') = Awaited(inflight)
          /\ IF route' = route
             THEN UNCHANGED <<profileLocal, exploreLocal>>
             ELSE /\ route' = "login"
                  /\ profile' = NoProfile /\ following' = FALSE
                  /\ users' = NoUsers /\ followingStates' = NoUsers]_vars

\* the like button of a post page was pressed without a session: the cached
\* post is still not liked, nothing is awaited, and the login page is shown
C5_Witness ==
    /\ ~isAuthenticated
    /\ event.op = "handleLike"
    /\ route = "login"
    /\ 1 \in DOMAIN posts /\ ~posts[1].is_liked /\ posts[1].like_count = 0
    /\ inflight = <<>>

\* the feed pages awaited, and those of them awaited by the mounted Feed
FeedCalls(reqs) == {i \in 1..Len(reqs) : reqs[i].kind = "getFeed"}

LiveFeedCalls(reqs) ==
    {i \in 1..Len(reqs) : reqs[i].kind = "getFeed" /\ reqs[i].live}

\* the ids of s in the order of their first appearance
RECURSIVE Distinct(_)
Distinct(s) ==
    IF s = <<>> THEN <<>>
    ELSE LET front == Distinct(SubSeq(s, 1, Len(s) - 1))
             last == s[Len(s)]
         IN IF last \in Range(front) THEN front ELSE Append(front, last)

\* C6: the response of a page after the first leaves the feed as it was,
\* followed by the ids of the response that the feed did not hold, each once
\* and in the order of their first appearance: no id of the feed moves and none
\* appears twice.  addToFeed([1,2]) then addToFeed([2,3]) on an empty feed gives
\* [1,2,3], and addToFeed applied twice with the same ids gives what it gives
\* applied once.
C6_AppendOnlyNewIds ==
    /\ [][\A i \in FeedCalls(inflight), newPosts \in FeedPages :
            (/\ inflight[i].page > 1
             /\ event'.op = "fetchFeed"
             /\ Len(inflight') < Len(inflight)
             /\ FeedResponse(i, newPosts, event'.result)) =>
                LET ids == PostIdsOf(newPosts)
                    fresh == SelectSeq(ids, LAMBDA x : x \notin Range(feedPosts))
                IN /\ feedPosts' = Distinct(feedPosts) \o Distinct(fresh)
                   /\ NoRepeat(feedPosts) =>
                         SubSeq(feedPosts', 1, Len(feedPosts)) = feedPosts]_vars
    /\ [](\A ids \in IdPages :
            addToFeed(addToFeed(feedPosts, ids), ids) = addToFeed(feedPosts, ids))
    /\ [](addToFeed(addToFeed(<<>>, <<1, 2>>), <<2, 3>>) = <<1, 2, 3>>)

\* a second page has been merged whose ids were partly in the feed already:
\* the feed is shorter than what was fetched, and holds no id twice
C6_Witness ==
    /\ event.op = "fetchFeed"
    /\ page = 2
    /\ fetched.ok
    /\ Len(feedPosts) < Len(fetched.ids)
    /\ Len(feedPosts) > Len(fetched.ids) - MaxPageLen
    /\ NoRepeat(feedPosts)

\* C7: the response of page 1 leaves the feed with exactly the ids of that
\* response, in their order, whatever the feed held before
C7_SetFeedReplaces ==
    [][\A i \in FeedCalls(inflight), newPosts \in FeedPages :
          (/\ inflight[i].page = 1
           /\ event'.op = "fetchFeed"
           /\ Len(inflight') < Len(inflight)
           /\ FeedResponse(i, newPosts, event'.result)) =>
              feedPosts' = PostIdsOf(newPosts)]_vars

\* a first page has replaced a feed that held other ids: a post of the cache
\* is no longer in the feed
C7_Witness ==
    /\ event.op = "fetchFeed"
    /\ page = 1
    /\ fetched.ok /\ fetched.ids = feedPosts
    /\ feedPosts # <<>>
    /\ \E id \in DOMAIN posts : id \notin Range(feedPosts)

\* C8: once the mounted Feed has been told has_next = false (hasMore is
\* false), handleLoadMore changes neither the page number nor the calls
\* awaited, and for as long as that Feed stays mounted hasMore stays false, the
\* page number stays and the Feed awaits no feed page
C8_NoFetchAfterLastPage ==
    /\ [][(HandleLoadMore /\ ~hasMore) =>
             UNCHANGED <<page, hasMore, inflight, feedPosts, posts>>]_vars
    /\ [][(route = "feed" /\ isAuthenticated /\ ~hasMore /\ route' = "feed") =>
             /\ ~hasMore'
             /\ page' = page
             /\ LiveFeedCalls(inflight') = {}]_vars

\* handleLoadMore was called after page 2 had come with has_next = false
C8_Witness ==
    /\ event.op = "handleLoadMore"
    /\ route = "feed"
    /\ ~hasMore
    /\ page = 2
    /\ fetched.ok

\* C9: when the mounted Feed has fetched pages 1..k in order, each with
\* success and with no response of an earlier Feed in between, the feed holds
\* the ids of page 1 followed by the ids of the later pages that were not yet
\* in it: the ids fetched, each once, in the order fetched.  handleLoadMore
\* after has_next = false leaves the feed as it is.
C9_FeedIsPagesInOrder ==
    /\ [](fetched.ok => feedPosts = Distinct(fetched.ids))
    /\ [][(HandleLoadMore /\ ~hasMore) => feedPosts' = feedPosts]_vars

\* ten posts came with has_next = true, three new ones with has_next = false:
\* the feed holds the thirteen ids in the order fetched, and a later
\* handleLoadMore has changed nothing
C9_Witness ==
    /\ fetched.ok
    /\ fetched.ids = PostIdsOf(FullPage) \o PostIdsOf(LastPage)
    /\ feedPosts = [i \in 1..(PageSize + 3) |-> i]
    /\ ~hasMore
    /\ event.op = "handleLoadMore"

\* C10 as stated: at most one feed page is awaited at any time, and
\* handleLoadMore changes nothing while a page after the first is awaited
C10_AsStated ==
    /\ [](Cardinality(FeedCalls(inflight)) <= 1)
    /\ [][(HandleLoadMore /\ \E i \in FeedCalls(inflight) : inflight[i].page > 1) =>
             UNCHANGED <<page, inflight>>]_vars

\* C10: while the mounted Feed awaits a page after the first, handleLoadMore
\* changes neither the page number nor the calls awaited; the mounted Feed
\* awaits at most one feed page, always the page its page number names, and
\* the page number moves only by one and only when the mounted Feed awaits
\* nothing.  A page awaited by a Feed that has unmounted since is not counted:
\* it does not hold back the Feed mounted now.
C10_OneFetchPerMountedFeed ==
    /\ [][(HandleLoadMore /\ \E i \in LiveFeedCalls(inflight) : inflight[i].page > 1) =>
             UNCHANGED <<page, inflight, loadingMore>>]_vars
    /\ [](Cardinality(LiveFeedCalls(inflight)) <= 1)
    /\ [](\A i \in LiveFeedCalls(inflight) : inflight[i].page = page)
    /\ [][(route = "feed" /\ route' = "feed" /\ page' # page) =>
             /\ page' = page + 1
             /\ LiveFeedCalls(inflight) = {}
             /\ \E i \in LiveFeedCalls(inflight') : inflight'[i].page = page']_vars

\* handleLoadMore was called while page 2 was awaited, next to a page that an
\* earlier Feed still awaits: page 2 is still the only page the mounted Feed
\* awaits
C10_Witness ==
    /\ event.op = "handleLoadMore"
    /\ loadingMore
    /\ page = 2
    /\ Cardinality(LiveFeedCalls(inflight)) = 1
    /\ Cardinality(FeedCalls(inflight)) = 2

\* C11: after a successful feed page response the more-pages flag of the Feed
\* that asked equals the server's has_next, false when has_next is missing,
\* whatever the number of items returned; a response for page 1 replaces the
\* feed list and a response for a later page appends its new ids to it.
C11_HasMoreFollowsServer ==
    [][\A i \in FeedCalls(inflight), newPosts \in FeedPages :
          (/\ event'.op = "fetchFeed"
           /\ Len(inflight') < Len(inflight)
           /\ FeedResponse(i, newPosts, event'.result))
          => /\ inflight[i].live => hasMore' = (event'.result = "true")
             /\ inflight[i].page = 1 => feedPosts' = PostIdsOf(newPosts)
             /\ inflight[i].page > 1 =>
                   /\ Range(feedPosts') = Range(feedPosts) \cup IdSet(newPosts)
                   /\ NoRepeat(feedPosts) =>
                         SubSeq(feedPosts', 1, Len(feedPosts)) = feedPosts]_vars

\* a full page answered without has_next: the Feed shows no further page
C11_Witness ==
    /\ route = "feed"
    /\ event.op = "fetchFeed"
    /\ event.result = "undefined"
    /\ fetched.ok
    /\ Len(fetched.ids) = PageSize
    /\ ~hasMore

\* C12: when the page is loaded with a stored session whose token has an
\* expiry that is not in the future, or whose token cannot be decoded, the
\* session is not restored: the token and the user in memory are null after the
\* load and the stored token and the stored user are removed.
C12_ExpiredSessionNotRestored ==
    [][\A decoded \in JwtDecoded, currentTime \in Times :
          (/\ event'.op = "load"
           /\ storedToken # Null /\ storedUser # Null
           /\ ~decoded.ok \/ decoded.exp <= currentTime
           /\ PageLoad(decoded, currentTime))
          => /\ token' = Null /\ user' = Null
             /\ storedToken' = Null /\ storedUser' = Null
             /\ ~isAuthenticated']_vars

\* a load that found a stored session with an expired token
C12_Witness ==
    /\ event.op = "load"
    /\ event.result = "expired"
    /\ token = Null /\ user = Null
    /\ storedToken = Null /\ storedUser = Null

\* the calls of AccountSpec answered with 401, by the one who made them
Rejected401(i) ==
    \/ LoginRejected(i, Unauthorized)
    \/ SignupRejected(i, Unauthorized)
    \/ FeedRejected(i, Unauthorized)
    \/ LikeRejected(i, Unauthorized)
    \/ AddCommentRejected(i, Unauthorized)

\* C13: when a call is answered with 401 the stored token and the stored user
\* are removed, whoever made the call (login, signup, the Feed's fetch, a like,
\* an unlike or a comment), and the failure still reaches the caller: the
\* optimistic change of a like or of a comment count is rolled back to the
\* values the call captured and the error is thrown to the handler.
C13_UnauthorizedClearsStorage ==
    [][\A i \in 1..MaxInflight :
          (Len(inflight') < Len(inflight) /\ event'.status = Unauthorized
           /\ Rejected401(i))
          => LET r == inflight[i]
             IN /\ storedToken' = Null /\ storedUser' = Null
                /\ event'.result = "thrown"
                /\ (r.kind \in LikeKinds /\ r.id \in DOMAIN posts') =>
                      /\ posts'[r.id].is_liked = r.was
                      /\ posts'[r.id].like_count = r.old
                /\ (r.kind = "addComment" /\ r.id \in DOMAIN posts') =>
                      posts'[r.id].comment_count = r.old]_vars

\* a like answered with 401 while the session was stored: the storage is
\* empty, the session in memory is still there, the post is not liked again
C13_Witness ==
    /\ event.op = "toggleLike"
    /\ event.status = Unauthorized
    /\ event.result = "thrown"
    /\ event.clean
    /\ storedToken = Null /\ storedUser = Null
    /\ isAuthenticated
    /\ event.id \in DOMAIN posts
    /\ ~posts[event.id].is_liked

\* C14: a signup that succeeds never leaves an authenticated session: whatever
\* the session was before, the token and the user in memory are null and the
\* stored token and the stored user are absent right after it; a session
\* appears only through a login, or through a load that finds what a login
\* stored.
C14_SignupLeavesNoSession ==
    /\ [][\A i \in 1..MaxInflight :
            (event'.op = "signup" /\ event'.result = "returned" /\ SignupOk(i))
            => /\ token' = Null /\ user' = Null
               /\ storedToken' = Null /\ storedUser' = Null
               /\ ~isAuthenticated']_vars
    /\ [][(~isAuthenticated /\ isAuthenticated')
            => \/ event'.op = "login" /\ event'.result = "returned"
               \/ event'.op = "load" /\ storedToken # Null]_vars

\* a signup succeeded while a session was held: the feed that session had
\* fetched is still listed, and no session is left
C14_Witness ==
    /\ event.op = "signup"
    /\ event.result = "returned"
    /\ feedPosts # <<>>
    /\ token = Null /\ user = Null
    /\ storedToken = Null /\ storedUser = Null

C16_UpdatePostFrame ==
    [][\A postId \in PostIds, updates \in PostUpdates :
          (event'.op = "updatePost" /\ UpdatePostCall(postId, updates))
          => /\ postId \notin DOMAIN posts => posts' = posts
             /\ postId \in DOMAIN posts =>
                   /\ DOMAIN posts' = DOMAIN posts
                   /\ \A x \in DOMAIN posts \ {postId} : posts'[x] = posts[x]
                   /\ DOMAIN posts'[postId] = DOMAIN posts[postId]
                   /\ \A f \in DOMAIN updates : posts'[postId][f] = updates[f]
                   /\ \A f \in DOMAIN posts[postId] \ DOMAIN updates :
                         posts'[postId][f] = posts[postId][f]
             /\ UNCHANGED lists]_vars

\* updatePost was called for post 2 while the cache held only post 1
C16_Witness ==
    /\ event.op = "updatePost"
    /\ event.result = "absent"
    /\ event.id = 2
    /\ DOMAIN posts = {1}

\* C17: as long as the server sends like counts that are not negative, the
\* like_count of every cached post is at least 0 in every reachable state; an
\* unlike of a post whose like_count is 0, by unlikePost or by toggleLike on a
\* liked post, leaves its like_count at 0.
C17_LikeCountNeverNegative ==
    /\ [](\A id \in DOMAIN posts : posts[id].like_count >= 0)
    /\ [][(event'.op \in {"unlikePost", "toggleLike"} /\ event'.result = "atZero")
            => /\ event'.id \in DOMAIN posts'
               /\ posts'[event'.id].like_count = 0
               /\ ~posts'[event'.id].is_liked]_vars

\* unlikePost was called on a liked post whose like_count was 0
C17_Witness ==
    /\ event.op = "unlikePost"
    /\ event.result = "atZero"
    /\ event.id \in DOMAIN posts
    /\ posts[event.id].like_count = 0
    /\ \E i \in 1..Len(inflight) :
          inflight[i].kind = "unlike" /\ inflight[i].was /\ inflight[i].old = 0

\* the fields of a post other than comment_count
OtherFields(post) == [f \in DOMAIN post \ {"comment_count"} |-> post[f]]

\* C18: addComment on a cached post raises that post's comment_count by exactly
\* 1 and changes nothing else: no other field of the post, no other post and no
\* list; when its network call fails, comment_count is set back to the value it
\* had before the call, nothing else changes, and the failure is thrown again
\* to the caller.
C18_AddCommentFrame ==
    /\ [][\A postId \in FocusIds :
            (event'.op = "handleComment" /\ Len(inflight') > Len(inflight)
             /\ PostCardHandleComment(postId))
            => /\ posts' = [posts EXCEPT ![postId].comment_count = @ + 1]
               /\ UNCHANGED lists]_vars
    /\ [][\A i \in 1..MaxInflight :
            (event'.op = "addComment" /\ AddCommentFail(i))
            => LET r == inflight[i]
               IN /\ event'.result = "thrown"
                  /\ UNCHANGED lists
                  /\ DOMAIN posts' = DOMAIN posts
                  /\ \A x \in DOMAIN posts \ {r.id} : posts'[x] = posts[x]
                  /\ r.id \in DOMAIN posts =>
                        /\ posts'[r.id].comment_count = r.pre.comment_count
                        /\ OtherFields(posts'[r.id]) = OtherFields(posts[r.id])]_vars

\* a comment on a liked post failed: the count is back at 0, the post is still
\* liked
C18_Witness ==
    /\ event.op = "addComment"
    /\ event.result = "thrown"
    /\ event.clean
    /\ event.id \in DOMAIN posts
    /\ posts[event.id].comment_count = 0
    /\ posts[event.id].is_liked

\* C19: in every reachable state each id of the feed list and of every
\* per-user list has an entry in the cache: the fetches of a page and of a
\* profile store the posts with their ids, a created post is stored before its
\* id is listed, and clearPosts empties the cache and the lists together; the
\* rendered feed is the feed list without the ids that have no entry, in the
\* same order, whatever the list and the cache hold.
C19_ListedIdsAreCached ==
    /\ Range(feedPosts) \subseteq DOMAIN posts
    /\ \A u \in DOMAIN userPosts : Range(userPosts[u]) \subseteq DOMAIN posts
    /\ postsList = feedPosts
    /\ \A feed \in SeqsUpTo(PostIds, MaxPageLen), ids \in SUBSET PostIds :
          LET ps == [x \in ids |-> PlainPost(x)]
              shown == postsListOf(feed, ps)
          IN /\ Range(shown) = Range(feed) \cap ids
             /\ shown = SelectSeq(feed, LAMBDA x : x \in ids)
             /\ Len(shown) <= Len(feed)

\* the feed lists a created post before a fetched one, a profile lists both,
\* and the cache holds both
C19_Witness ==
    /\ event.op = "createPost"
    /\ event.result = "returned"
    /\ feedPosts = <<2, 1>>
    /\ "u" \in DOMAIN userPosts
    /\ Len(userPosts["u"]) = 2
    /\ DOMAIN posts = {1, 2}

\* C20: right after a logout the token and the user in memory are null, the
\* stored token and the stored user are removed, and the cache, the feed list
\* and the per-user lists are empty.
C20_LogoutTearsDown ==
    [][(event'.op = "handleLogout" /\ HandleLogout)
        => /\ token' = Null /\ user' = Null
           /\ storedToken' = Null /\ storedUser' = Null
           /\ posts' = EmptyPosts
           /\ feedPosts' = <<>>
           /\ DOMAIN userPosts' = {}
           /\ ~isAuthenticated']_vars

\* a logout that found a session, cached posts, a feed and a per-user list
C20_Witness ==
    /\ event.op = "handleLogout"
    /\ event.result = "cleared"
    /\ token = Null /\ user = Null
    /\ storedToken = Null /\ storedUser = Null
    /\ posts = EmptyPosts /\ feedPosts = <<>> /\ userPosts = NoUserPosts

\* the like and unlike calls awaited in reqs
LikeCalls(reqs) == SelectSeq(reqs, LAMBDA r : r.kind \in LikeKinds)

\* C21: toggleLike on an id the cache does not hold first fetches the post,
\* issuing no like or unlike call and changing no entry; when the fetch is
\* answered the post is stored and toggled from the fetched like state and
\* count, and the matching call is issued; when the fetch fails no like or
\* unlike call is issued, the cache stays as it was and the failure is thrown
\* to the caller.
C21_ToggleLikeFetchesAbsentPost ==
    /\ [][\A postId \in FocusIds :
            (event'.op = "toggleLike" /\ postId \notin DOMAIN posts
                /\ ToggleLikeCall(postId))
            => /\ posts' = posts
               /\ LikeCalls(inflight') = LikeCalls(inflight)
               /\ inflight'[Len(inflight')].kind = "toggleFetch"
               /\ inflight'[Len(inflight')].id = postId]_vars
    /\ [][\A i \in 1..MaxInflight, p \in ServerPost(1) :
            (event'.op = "toggleLikeFetched" /\ ToggleFetchOk(i, p))
            => /\ posts'[p.id] =
                    [p EXCEPT !.is_liked = ~p.is_liked,
                              !.like_count = IF p.is_liked
                                             THEN Max(0, p.like_count - 1)
                                             ELSE p.like_count + 1]
               /\ \A x \in DOMAIN posts \ {p.id} :
                     x \in DOMAIN posts' /\ posts'[x] = posts[x]
               /\ Len(LikeCalls(inflight')) = Len(LikeCalls(inflight)) + 1
               /\ LET call == inflight'[Len(inflight')]
                  IN /\ call.kind = (IF p.is_liked THEN "unlike" ELSE "like")
                     /\ call.id = p.id
                     /\ call.was = p.is_liked
                     /\ call.old = p.like_count]_vars
    /\ [][\A i \in 1..MaxInflight :
            (event'.result = "thrown" /\ ToggleFetchFail(i))
            => /\ posts' = posts
               /\ LikeCalls(inflight') = LikeCalls(inflight)
               /\ event'.op = "toggleLike"
               /\ event'.id = inflight[i].id]_vars

\* the fetch of an absent post failed while the cache held another post
C21_Witness ==
    /\ event.op = "toggleLike"
    /\ event.result = "thrown"
    /\ event.id = 1
    /\ event.id \notin DOMAIN posts
    /\ DOMAIN posts = {2}
    /\ LikeCalls(inflight) = <<>>

\* the calls of postAPI.getById awaited in reqs
GetByIdCalls(reqs) == SelectSeq(reqs, LAMBDA r : r.kind \in {"fetchPost", "toggleFetch"})

\* C22: addNewPost(p), called when the create call is answered, stores p in
\* the cache and puts p.id at the head of the feed in that same step, without
\* fetching the post: the ids the feed listed before follow in their previous
\* order, every other cache entry and every per-user list stay as they were.
C22_AddNewPostFrame ==
    [][\A i \in 1..MaxInflight, id \in PostIds :
          (event'.op = "createPost" /\ event'.result = "returned"
              /\ CreateOk(i, PlainPost(id)))
          => /\ id \in DOMAIN posts' /\ posts'[id] = PlainPost(id)
             /\ DOMAIN posts' = DOMAIN posts \cup {id}
             /\ \A x \in DOMAIN posts \ {id} : posts'[x] = posts[x]
             /\ Head(feedPosts') = id
             /\ Tail(feedPosts') = feedPosts
             /\ userPosts' = userPosts
             /\ Len(GetByIdCalls(inflight')) <= Len(GetByIdCalls(inflight))]_vars

\* a post was created while the feed listed two ids and a profile had a list
C22_Witness ==
    /\ event.op = "createPost"
    /\ event.result = "returned"
    /\ Len(feedPosts) = 3
    /\ feedPosts[1] = event.id
    /\ feedPosts[2] # feedPosts[3]
    /\ DOMAIN userPosts # {}

\* C23 as stated: whenever no like or unlike call for a cached post is
\* awaited, its is_liked is the like state the server holds for the viewer,
\* also after toggles that overlapped and calls that failed
C23_AsStated ==
    \A id \in DOMAIN posts :
        ~PendingLike(inflight, id) => posts[id].is_liked = chain[id].server

\* C23: when a like or unlike call settles, its toggle started from the like
\* state the server holds, and nothing else wrote the like fields of the post
\* since the toggle was invoked (no other toggle, no rollback of another
\* toggle, no fetch), the is_liked of the post is the server's like state: the
\* toggled one after a success, the restored one after a failure.  Toggles
\* that overlap are not covered: their rollbacks restore snapshots taken from
\* each other's optimistic values.
C23_SerialTogglesMatchServer ==
    [][\A i \in 1..MaxInflight :
          (Len(inflight') < Len(inflight)
              /\ (LikeOk(i) \/ LikeFail(i))
              /\ inflight[i].clean
              /\ inflight[i].was = chain[inflight[i].id].server)
          => /\ inflight[i].id \in DOMAIN posts'
             /\ posts'[inflight[i].id].is_liked = chain'[inflight[i].id].server]_vars

\* an unlike that started from a like the server holds was rejected: the post
\* is liked again, as on the server
C23_Witness ==
    /\ event.op = "toggleLike" /\ event.result = "thrown" /\ event.clean
    /\ event.id \in DOMAIN posts
    /\ posts[event.id].is_liked
    /\ chain[event.id].server
    /\ ~PendingLike(inflight, event.id)

\* C24 as stated: a load-more request of a Feed that has merged pages 1 to m
\* fetches page m + 1, also when a fetch of page m + 1 failed before, so that
\* no page is skipped
C24_FailedPageIsFetchedAgain ==
    [][(event'.op = "handleLoadMore" /\ Len(inflight') > Len(inflight)
            /\ fetched.merged >= 1 /\ HandleLoadMore)
        => inflight'[Len(inflight')].page = fetched.merged + 1]_vars

\* C25 as stated: in every reachable state the feed list holds no id more
\* than once, however the answers of feed fetches (setFeed, addToFeed) and of
\* the creation of a post (addNewPost) interleave
C25_FeedHasNoDuplicates == NoRepeat(feedPosts)

\* C26 as stated: the answer to a call that was in flight when the user
\* logged out, arriving right after the logout, changes neither the stored
\* token and user, nor the session in memory, nor the cache, the feed list and
\* the per-user lists: what the logout emptied stays empty
C26_LoggedOutStaysEmpty ==
    [][(event.op = "handleLogout" /\ Len(inflight') < Len(inflight))
        => UNCHANGED <<session, posts, lists>>]_vars

CommentCalls(reqs, postId) ==
    \E i \in 1..Len(reqs) :
        reqs[i].id = postId /\ reqs[i].kind \in {"addComment", "getComments"}

\* C27 as stated: once an add-comment call for a post has succeeded and no
\* add-comment call and no fetch of its comments is awaited any more, the
\* comment list shown for the post, mounted under the current comment_count
\* and loaded, holds every comment the server has stored since the list was
\* opened
C27_CommentListShowsNewComment ==
    (/\ commentList.postId # NoId
     /\ CardRendered(commentList.postId)
     /\ CommentListKeyed
     /\ commentList.loaded
     /\ commentList.added >= 1
     /\ ~CommentCalls(inflight, commentList.postId))
        => commentList.shown = commentList.added

\* C28: when every post the server delivers that is liked by the viewer has a
\* like_count of at least 1, every cached post with is_liked = true has
\* like_count >= 1 in every reachable state: the optimistic updates of
\* toggleLike, likePost and unlikePost and their rollbacks, overlapping ones
\* included, write is_liked and like_count together.
C28_LikedPostsAreCounted ==
    \A id \in DOMAIN posts : posts[id].is_liked => posts[id].like_count >= 1

\* a toggle that overlapped with another one was rolled back to a liked post
C28_Witness ==
    /\ event.op = "toggleLike" /\ event.result = "thrown" /\ ~event.clean
    /\ event.id \in DOMAIN posts
    /\ posts[event.id].is_liked
    /\ posts[event.id].like_count = 1
    /\ PendingLike(inflight, event.id)

\* the list of a user; a user without an entry has no posts listed
UserList(lst, username) == IF username \in DOMAIN lst THEN lst[username] ELSE <<>>

\* C29 as stated: after a profile fetch has succeeded, the per-user list of
\* that user is the sequence of the post ids returned with the profile, the
\* empty sequence when the profile has no posts, and the feed list is as it was
C29_UserListIsProfilePosts ==
    [][\A i \in 1..MaxInflight, profilePosts \in PlainPages :
          (event'.op = "fetchProfile" /\ event'.result = "returned"
              /\ ProfileResponse(i, FALSE, 0, profilePosts))
          => /\ UserList(userPosts', "u") = PostIdsOf(profilePosts)
             /\ feedPosts' = feedPosts]_vars

AbsentCallOps == {"likePost", "unlikePost", "addComment"}

\* C30: addComment, likePost and unlikePost called for an id that is absent
\* from the entity cache return without issuing a network call, without
\* changing the cache and without signalling a failure to the caller.
C30_AbsentIdCallsDoNothing ==
    [][\A postId \in PostIds :
          (/\ postId \notin DOMAIN posts
           /\ event'.id = postId
           /\ event'.op \in AbsentCallOps
           /\ \/ LikePostCall(postId)
              \/ UnlikePostCall(postId)
              \/ AddCommentCall(postId))
          => /\ inflight' = inflight
             /\ posts' = posts
             /\ event'.result # "thrown"
             /\ event'.status = "none"]_vars

\* one of the three operations was called for post 2, which is absent from a
\* cache that holds post 1, and no call is awaited
C30_Witness ==
    /\ event.op \in AbsentCallOps
    /\ event.result = "none"
    /\ event.id = 2
    /\ DOMAIN posts = {1}
    /\ inflight = <<>>

====
